---------------------------- MODULE Spec2Model ----------------------------
(***************************************************************************)
(* A model of the extraction / translation pipeline of ax-i18n:            *)
(*   - KeyGenerator     (src/src/utils/key-generator.ts)                   *)
(*   - CacheManager     (src/unnamed/part_008)                             *)
(*   - LLMClient        (src/src/llm/client.ts)                            *)
(*   - CodeTransformer  (src/src/processor/text-extractor.ts)              *)
(*   - FileProcessor    (src/unnamed/part_011, the concurrent variant)     *)
(*                                                                         *)
(* Strings are TLA+ strings.  A source text is a sequence of characters,   *)
(* each character named by its code point ("U610F" is U+610F).             *)
(***************************************************************************)
EXTENDS Integers, Sequences, FiniteSets, TLC

VARIABLES
    now,            \* Date.now(), the wall clock in milliseconds
    kgConfig,       \* KeyGenerator.config
    existingKeys,   \* KeyGenerator.existingKeys
    textToKeyMap,   \* KeyGenerator.textToKeyMap
    kgLast,         \* history: the last generateKey call and what it returned
    kgFirst,        \* history: the key the first call returned, per text
    kgCalls,        \* history: number of KeyGenerator calls made so far
    cacheConfig,    \* CacheManager.config
    memoryCache,    \* CacheManager.memoryCache, in Map insertion order
    disk,           \* the snapshot file llm-cache.json (NoFile when absent)
    loadPc,         \* where the constructor's un-awaited loadFromDisk stands
    saveEnsure,     \* number of saveToDisk calls awaiting fs.ensureDir
    saveWrites,     \* snapshots of saveToDisk calls awaiting fs.writeJSON
    cacheLast,      \* history: the last CacheManager step and its result
    cacheOps,       \* history: number of CacheManager calls made so far
    diskLog,        \* history: the failed disk operations and the calls that
                    \* raced with loadFromDisk (Nothing where it is not kept)
    llmConfig,      \* LLMClient.config: retryCount, translation.batchSize
    llmTexts,       \* batchTranslateTexts: the texts argument, in key order
    llmPc,          \* batchTranslateTexts: the await the call stands at
    batchStart,     \* batchTranslateTexts: the loop variable i
    translations,   \* batchTranslateTexts: the translations record
    attempt,        \* invokeWithRetry: the loop variable attempt
    lastError,      \* invokeWithRetry: lastError
    retryLog,       \* history: the provider's answers to this invokeWithRetry
    sleepLog,       \* history: the sleeps of this invokeWithRetry
    retryLast,      \* history: how the last invokeWithRetry ended
    batchLog,       \* history: keys and outcome of every batch so far
    procConfig,     \* processAll: the options concurrency and skipTranslate
    procPc,         \* processAll: the await the call stands at
    procI,          \* processFilesConcurrently: the loop variable i
    units,          \* one processFile call per target file, in scan order
    results,        \* processFilesConcurrently: results
    allExtractedTexts,  \* FileProcessor.allExtractedTexts
    diskFiles,      \* the content writeProcessedFile wrote, per file
    localeFile,     \* the locale file writeLocalizationFiles wrote
    stats,          \* the ProcessingStats processAll returned
    clientPc,       \* extractTexts / translateTexts: the await the call is at
    clientCall,     \* extractTexts / translateTexts: the call being served
    clientLog,      \* history: the calls served so far and how they ended
    pureArgs,       \* the arguments of a call of a pure method
    pureResult      \* what that call returned (Nothing before it returns)

kgVars == <<kgConfig, existingKeys, textToKeyMap, kgLast, kgFirst, kgCalls>>

cacheVars == <<cacheConfig, memoryCache, disk, loadPc, saveEnsure, saveWrites,
               cacheLast, cacheOps, diskLog>>

llmVars == <<llmConfig, llmTexts, llmPc, batchStart, translations, attempt,
             lastError, retryLog, sleepLog, retryLast, batchLog>>

procVars == <<procConfig, procPc, procI, units, results, allExtractedTexts,
              diskFiles, localeFile, stats>>

clientVars == <<clientPc, clientCall, clientLog>>

pureVars == <<pureArgs, pureResult>>

\* What the steps of one component leave alone
notKeyGen == <<cacheVars, llmVars, procVars, clientVars, pureVars>>
notCache == <<kgVars, llmVars, procVars, clientVars, pureVars>>
notLLM == <<now, kgVars, cacheVars, procVars, clientVars, pureVars>>
notProc == <<kgConfig, kgLast, kgFirst, kgCalls, cacheVars, llmVars,
             clientVars, pureVars>>
notClient == <<now, kgVars, cacheVars, llmVars, procVars, pureVars>>
notPure == <<now, kgVars, cacheVars, llmVars, procVars, clientVars>>

-----------------------------------------------------------------------------
(* Bounds of the model *)

MaxClock == 2
MaxKeyCalls == 4
MaxCacheOps == 2
MaxPendingSaves == 1
MaxOverlappingSaves == 2
MaxMemoryOps == 4
MaxRetries == 2
MaxBatchSize == 2
MaxTexts == 3
MaxFiles == 2
MaxClientCalls == 2
MaxConcurrency == 2

-----------------------------------------------------------------------------
(* Generic helpers on finite maps (JS Map / Record) *)

EmptyMap == <<>>

Put(f, k, v) == [x \in (DOMAIN f) \cup {k} |-> IF x = k THEN v ELSE f[x]]

Nothing == [none |-> TRUE]

-----------------------------------------------------------------------------
(* Source texts *)

\* "意义" and "异议" romanize alike without tones; "提交"; "提交表单" is long
TextYiYi == <<"U610F", "U4E49">>
TextYiYi2 == <<"U5F02", "U8BAE">>
TextTiJiao == <<"U63D0", "U4EA4">>
TextLong == <<"U63D0", "U4EA4", "U8868", "U5355">>

Texts == {TextYiYi, TextYiYi2, TextTiJiao, TextLong}

\* The empty text, "!", "OK", "提交!", and "提交表格", which is long
TextEmpty == <<>>
TextBang == <<"U0021">>
TextOK == <<"U004F", "U004B">>
TextTiJiaoBang == <<"U63D0", "U4EA4", "U0021">>
TextLong2 == <<"U63D0", "U4EA4", "U8868", "U683C">>

OtherTexts == {TextEmpty, TextBang, TextOK, TextTiJiaoBang, TextLong2}

\* String.charCodeAt of each character
CharCode(c) ==
    CASE c = "U610F" -> 24847
      [] c = "U4E49" -> 20041
      [] c = "U5F02" -> 24322
      [] c = "U8BAE" -> 35758
      [] c = "U63D0" -> 25552
      [] c = "U4EA4" -> 20132
      [] c = "U8868" -> 34920
      [] c = "U5355" -> 21333
      [] c = "U683C" -> 26684
      [] c = "U0021" -> 33
      [] c = "U004F" -> 79
      [] c = "U004B" -> 75

\* pinyin-pro's reading of one character with toneType 'none'
Syllable(c) ==
    CASE c = "U610F" -> "yi"
      [] c = "U4E49" -> "yi"
      [] c = "U5F02" -> "yi"
      [] c = "U8BAE" -> "yi"
      [] c = "U63D0" -> "ti"
      [] c = "U4EA4" -> "jiao"
      [] c = "U8868" -> "biao"
      [] c = "U5355" -> "dan"
      [] c = "U683C" -> "ge"

\* The character itself, for the characters pinyin-pro has no reading of
Literal(c) ==
    CASE c = "U0021" -> "!"
      [] c = "U004F" -> "O"
      [] c = "U004B" -> "K"

IsChinese(c) == c \notin {"U0021", "U004F", "U004B"}

\* pinyin-pro's reading with toneType 'num'
SyllableNum(c) ==
    CASE c = "U610F" -> "yi4"
      [] c = "U4E49" -> "yi4"
      [] c = "U5F02" -> "yi4"
      [] c = "U8BAE" -> "yi4"
      [] c = "U63D0" -> "ti2"
      [] c = "U4EA4" -> "jiao1"
      [] c = "U8868" -> "biao3"
      [] c = "U5355" -> "dan1"
      [] c = "U683C" -> "ge2"

\* pinyin-pro's reading with toneType 'symbol'.  A vowel that carries a tone
\* mark is one character outside ASCII, written here as one character:
\* "%" for U+00EC, "/" for U+00ED, "=" for U+0101, "^" for U+01CE,
\* "|" for U+00E9.
SyllableSymbol(c) ==
    CASE c = "U610F" -> "y%"
      [] c = "U4E49" -> "y%"
      [] c = "U5F02" -> "y%"
      [] c = "U8BAE" -> "y%"
      [] c = "U63D0" -> "t/"
      [] c = "U4EA4" -> "ji=o"
      [] c = "U8868" -> "bi^o"
      [] c = "U5355" -> "d=n"
      [] c = "U683C" -> "g|"

-----------------------------------------------------------------------------
(* KeyGenerator: pure functions *)

maxChineseLength == 10
hashLength == 6
separator == "_"

KeyPrefixes == {"", "app"}

PinyinOptions == [toneType : {"none", "num", "symbol"},
                  type : {"array", "string"}]

DefaultPinyinOptions == [toneType |-> "none", type |-> "array"]

RECURSIVE JoinWith(_, _)
JoinWith(parts, sep) ==
    IF Len(parts) = 0 THEN ""
    ELSE IF Len(parts) = 1 THEN parts[1]
    ELSE parts[1] \o sep \o JoinWith(Tail(parts), sep)

Reading(toneType, c) ==
    CASE toneType = "none" -> Syllable(c)
      [] toneType = "num" -> SyllableNum(c)
      [] toneType = "symbol" -> SyllableSymbol(c)

\* pinyin(text, {toneType, type: 'array', nonZh: 'consecutive'}): one item
\* per Chinese character, one item per run of other characters
RECURSIVE PinyinItems(_, _, _)
PinyinItems(toneType, text, run) ==
    IF Len(text) = 0
    THEN IF run = "" THEN <<>> ELSE <<run>>
    ELSE IF IsChinese(Head(text))
         THEN (IF run = "" THEN <<>> ELSE <<run>>)
                  \o <<Reading(toneType, Head(text))>>
                  \o PinyinItems(toneType, Tail(text), "")
         ELSE PinyinItems(toneType, Tail(text), run \o Literal(Head(text)))

\* The array joined by the separator, or pinyin's own string, whose items
\* a space separates
convertToPinyin(cfg, text) ==
    LET items == PinyinItems(cfg.pinyinOptions.toneType, text, "")
    IN  IF cfg.pinyinOptions.type = "array"
        THEN JoinWith(items, cfg.separator)
        ELSE JoinWith(items, " ")

HexDigit(n) == SubSeq("0123456789abcdef", n + 1, n + 1)

RECURSIVE Fold(_, _, _)
Fold(codes, h, mult) ==
    IF Len(codes) = 0 THEN h
    ELSE Fold(Tail(codes), (h * mult + Head(codes)) % 65536, mult)

Hex4(n) ==
    HexDigit(n \div 4096) \o HexDigit((n \div 256) % 16)
        \o HexDigit((n \div 16) % 16) \o HexDigit(n % 16)

\* The leading hex digits of a digest of the characters `codes`: the same
\* input always gives the same digits, different inputs may collide.
Digest(codes) == Hex4(Fold(codes, 7, 31)) \o Hex4(Fold(codes, 11, 37))

RECURSIVE DecimalCodes(_)
DecimalCodes(n) ==
    IF n < 10 THEN <<48 + n>>
    ELSE DecimalCodes(n \div 10) \o <<48 + (n % 10)>>

TextCodes(text) == [i \in 1..Len(text) |-> CharCode(text[i])]

\* createHash('md5').update(text).digest('hex').substring(0, length)
generateHash(codes, length) == SubSeq(Digest(codes), 1, length)

\* limitLength that hashes the text cut to as many characters as the
\* romanized form keeps syllables
limitLengthHashOfTruncated(cfg, pinyin, originalText) ==
    IF Len(pinyin) <= maxChineseLength THEN pinyin
    ELSE SubSeq(pinyin, 1, maxChineseLength) \o cfg.separator
            \o generateHash(TextCodes(SubSeq(originalText, 1, 3)), hashLength)

limitLength(cfg, pinyin, originalText) ==
    IF Len(pinyin) <= maxChineseLength THEN pinyin
    ELSE SubSeq(pinyin, 1, maxChineseLength) \o cfg.separator
            \o generateHash(TextCodes(originalText), hashLength)

\* hash of text + Date.now()
handleDuplicateKey(cfg, baseKey, text, time) ==
    baseKey \o cfg.separator
        \o generateHash(TextCodes(text) \o DecimalCodes(time), hashLength)

baseKeyOf(cfg, text) ==
    LET limited == limitLength(cfg, convertToPinyin(cfg, text), text)
    IN  IF cfg.keyPrefix # "" THEN cfg.keyPrefix \o cfg.separator \o limited
        ELSE limited

\* generateKey that ignores reuseExistingKey: never consults the memo and
\* always de-duplicates
generateKeyIgnoringReuse(cfg, keys, memo, text, time) ==
    LET baseKey == baseKeyOf(cfg, text)
        finalKey == IF baseKey \in keys
                    THEN handleDuplicateKey(cfg, baseKey, text, time)
                    ELSE baseKey
    IN  [key |-> finalKey,
         existingKeys |-> keys \cup {finalKey},
         textToKeyMap |-> Put(memo, text, finalKey)]

\* generateKey(text) at time `time` on a generator whose used-key set is
\* `keys` and whose memo is `memo`: the key returned and the two collections
\* after the call
generateKey(cfg, keys, memo, text, time) ==
    IF cfg.reuseExistingKey /\ text \in DOMAIN memo
    THEN [key |-> memo[text], existingKeys |-> keys, textToKeyMap |-> memo]
    ELSE LET baseKey == baseKeyOf(cfg, text)
             finalKey == IF ~cfg.reuseExistingKey /\ baseKey \in keys
                         THEN handleDuplicateKey(cfg, baseKey, text, time)
                         ELSE baseKey
         IN  [key |-> finalKey,
              existingKeys |-> keys \cup {finalKey},
              textToKeyMap |-> Put(memo, text, finalKey)]

\* The characters of /^[a-zA-Z0-9_\-\.]+$/
ValidChars ==
    LET chars == "abcdefghijklmnopqrstuvwxyzABCDEFGHIJKLMNOPQRSTUVWXYZ0123456789_-."
    IN  { SubSeq(chars, i, i) : i \in 1..Len(chars) }

startsWith(string, prefix) ==
    /\ Len(string) >= Len(prefix)
    /\ SubSeq(string, 1, Len(prefix)) = prefix

validateKey(cfg, key) ==
    /\ key # ""
    /\ cfg.keyPrefix # "" => startsWith(key, cfg.keyPrefix)
    /\ \A i \in 1..Len(key) : SubSeq(key, i, i) \in ValidChars

-----------------------------------------------------------------------------
(* KeyGenerator: state and operations *)

KeyGenInit ==
    /\ kgConfig \in [reuseExistingKey : BOOLEAN, keyPrefix : KeyPrefixes,
                      separator : {separator},
                      pinyinOptions : {DefaultPinyinOptions}]
    /\ existingKeys = {}
    /\ textToKeyMap = EmptyMap
    /\ kgLast = Nothing
    /\ kgFirst = EmptyMap
    /\ kgCalls = 0

\* The state change of one generateKey(text) call, and its history
DoGenerateKey(text) ==
    LET r == generateKey(kgConfig, existingKeys, textToKeyMap, text, now)
    IN  /\ existingKeys' = r.existingKeys
        /\ textToKeyMap' = r.textToKeyMap
        /\ kgLast' = [text |-> text, key |-> r.key, before |-> existingKeys,
                      seenBefore |-> text \in DOMAIN kgFirst]
        /\ kgFirst' = IF text \in DOMAIN kgFirst THEN kgFirst
                      ELSE Put(kgFirst, text, r.key)

GenerateKey(text) ==
    /\ kgCalls < MaxKeyCalls
    /\ DoGenerateKey(text)
    /\ kgCalls' = kgCalls + 1
    /\ UNCHANGED <<now, kgConfig, notKeyGen>>

\* Keys of a locale file written by an earlier run
LoadableKeySets == {{"yi_yi"}, {"ti_jiao", "app_ti_jiao"}}

loadExistingKeys(keys) ==
    /\ kgCalls < MaxKeyCalls
    /\ existingKeys' = existingKeys \cup keys
    /\ kgCalls' = kgCalls + 1
    /\ UNCHANGED <<now, kgConfig, textToKeyMap, kgLast, kgFirst, notKeyGen>>

KeyGenerator_clear ==
    /\ kgCalls < MaxKeyCalls
    /\ existingKeys # {}
    /\ existingKeys' = {}
    /\ textToKeyMap' = EmptyMap
    /\ kgLast' = Nothing
    /\ kgFirst' = EmptyMap
    /\ kgCalls' = kgCalls + 1
    /\ UNCHANGED <<now, kgConfig, notKeyGen>>

\* Time passes
KeyGenTick ==
    /\ now < MaxClock
    /\ now' = now + 1
    /\ UNCHANGED <<kgVars, notKeyGen>>

KeyGenNext ==
    \/ \E text \in Texts : GenerateKey(text)
    \/ \E keys \in LoadableKeySets : loadExistingKeys(keys)
    \/ KeyGenerator_clear
    \/ KeyGenTick

-----------------------------------------------------------------------------
(* CacheManager: pure functions *)

defaultTTL == 86400000

CacheKeys == {"k1", "k2", "k3"}

\* The value of the optional parameter ttl in a call that leaves it out
Undefined == -1

\* The set(key, data, ttl) calls made: without ttl, with a positive ttl and
\* with ttl 0
SetCalls ==
    { <<"k1", "d1", Undefined>>, <<"k1", "d2", 1>>, <<"k2", "d2", 1>>,
      <<"k3", "d1", 0>> }

NoFile == [exists |-> FALSE, entries |-> <<>>]

File(entries) == [exists |-> TRUE, entries |-> entries]

CacheEntry(key, data, timestamp, expiresAt) ==
    [key |-> key, data |-> data, timestamp |-> timestamp,
     expiresAt |-> expiresAt]

\* expiry test with the comparison turned around
isExpiredReversed(entry, time) == entry.expiresAt > time

isExpired(entry, time) == time > entry.expiresAt

\* Array.prototype.filter on the entries of a Map
RECURSIVE SelectEntries(_, _)
SelectEntries(entries, keep) ==
    IF Len(entries) = 0 THEN <<>>
    ELSE IF Head(entries).key \in keep
         THEN <<Head(entries)>> \o SelectEntries(Tail(entries), keep)
         ELSE SelectEntries(Tail(entries), keep)

KeysOf(entries) == {entries[i].key : i \in 1..Len(entries)}

IndexOfKey(entries, key) ==
    CHOOSE i \in 1..Len(entries) : entries[i].key = key

\* Map.prototype.set: an existing key keeps its place, a new key goes last
MapSet(entries, entry) ==
    IF entry.key \in KeysOf(entries)
    THEN [entries EXCEPT ![IndexOfKey(entries, entry.key)] = entry]
    ELSE Append(entries, entry)

MapDelete(entries, key) == SelectEntries(entries, KeysOf(entries) \ {key})

cleanExpired(entries, time) ==
    SelectEntries(entries,
        {entries[i].key : i \in {j \in 1..Len(entries) :
                                    ~isExpired(entries[j], time)}})

\* The sort of enforceSizeLimit with the comparison turned around
SortedRankNewestFirst(entries, i) ==
    Cardinality({j \in 1..Len(entries) :
        \/ entries[j].timestamp > entries[i].timestamp
        \/ entries[j].timestamp = entries[i].timestamp /\ j < i})

\* Position of entry i after the stable sort by timestamp
SortedRank(entries, i) ==
    Cardinality({j \in 1..Len(entries) :
        \/ entries[j].timestamp < entries[i].timestamp
        \/ entries[j].timestamp = entries[i].timestamp /\ j < i})

\* enforceSizeLimit that keeps one entry too many
enforceSizeLimitOffByOne(entries, maxEntries) ==
    IF Len(entries) <= maxEntries + 1 THEN entries
    ELSE LET toDelete == Len(entries) - maxEntries - 1
         IN  SelectEntries(entries,
                 {entries[i].key : i \in {j \in 1..Len(entries) :
                                     SortedRank(entries, j) >= toDelete}})

enforceSizeLimit(entries, maxEntries) ==
    IF Len(entries) <= maxEntries THEN entries
    ELSE LET toDelete == Len(entries) - maxEntries
         IN  SelectEntries(entries,
                 {entries[i].key : i \in {j \in 1..Len(entries) :
                                     SortedRank(entries, j) >= toDelete}})

\* The loop of loadFromDisk and importCache over the entries of a file
RECURSIVE RestoreEntries(_, _, _)
RestoreEntries(entries, file, time) ==
    IF Len(file) = 0 THEN entries
    ELSE RestoreEntries(
            IF isExpired(Head(file), time) THEN entries
            ELSE MapSet(entries, Head(file)),
            Tail(file), time)

\* ttl || defaultTTL: undefined and 0 are both falsy
EffectiveTTL(ttl) ==
    IF ttl = Undefined \/ ttl = 0 THEN cacheConfig.defaultTTL ELSE ttl

-----------------------------------------------------------------------------
(* CacheManager: state and operations *)

MaxEntriesChoices == {1, 2}
DefaultTTLChoices == {2}

\* Snapshot files left by an earlier run
SnapshotFiles ==
    { NoFile,
      File(<<CacheEntry("k1", "d2", -2, -1), CacheEntry("k2", "d1", -2, 1),
             CacheEntry("k3", "d2", -1, 2)>>) }

\* new CacheManager(config): the constructor up to the await in loadFromDisk
CacheManager_new ==
    /\ memoryCache = <<>>
    /\ disk \in SnapshotFiles
    /\ loadPc = IF cacheConfig.enabled /\ cacheConfig.persistent
                THEN "pathExists" ELSE "done"
    /\ saveEnsure = 0
    /\ saveWrites = {}
    /\ cacheLast = [op |-> "new"]
    /\ cacheOps = 0

\* The keys the calls on a persistent cache are made with
DiskKeys == {"k1", "k2"}

CacheInit ==
    /\ cacheConfig \in [enabled : BOOLEAN, persistent : BOOLEAN,
                        maxEntries : MaxEntriesChoices,
                        defaultTTL : DefaultTTLChoices]
    /\ CacheManager_new
    /\ diskLog = Nothing

\* An enabled, persistent cache with room for every key it is given, and
\* the history of its disk operations
DiskInit ==
    /\ cacheConfig \in [enabled : {TRUE}, persistent : {TRUE},
                        maxEntries : {Cardinality(DiskKeys)},
                        defaultTTL : DefaultTTLChoices]
    /\ CacheManager_new
    /\ diskLog = [failures |-> 0, unhandled |-> 0, early |-> FALSE]

\* History: a disk operation answered, or failed and was caught
DiskStep(failed) ==
    diskLog' = IF diskLog = Nothing \/ ~failed THEN diskLog
               ELSE [diskLog EXCEPT !.failures = @ + 1]

\* History: a disk operation failed and nothing caught it
DiskStepUncaught ==
    diskLog' = IF diskLog = Nothing THEN diskLog
               ELSE [diskLog EXCEPT !.failures = @ + 1, !.unhandled = @ + 1]

PendingSaves == saveEnsure + Cardinality(saveWrites)

\* Where the history of the disk is kept, saves are followed through more
\* overlap
SaveBudget ==
    IF diskLog = Nothing THEN MaxPendingSaves ELSE MaxOverlappingSaves

\* A call of saveToDisk up to its first await
StartSave ==
    IF cacheConfig.persistent
    THEN /\ PendingSaves < SaveBudget
         /\ saveEnsure' = saveEnsure + 1
    ELSE saveEnsure' = saveEnsure

\* A cache that persists nothing has no pending disk work to explore, so it
\* is followed through more calls
OpBudget == IF cacheConfig.persistent THEN MaxCacheOps ELSE MaxMemoryOps

CacheOp == /\ cacheOps < OpBudget
           /\ cacheOps' = cacheOps + 1
           /\ diskLog' = IF diskLog = Nothing THEN diskLog
                         ELSE [diskLog EXCEPT !.early = @ \/ loadPc # "done"]

CacheManager_set(key, data, ttl) ==
    /\ CacheOp
    /\ IF ~cacheConfig.enabled
       THEN UNCHANGED <<memoryCache, saveEnsure>>
       ELSE /\ memoryCache' = enforceSizeLimit(
                    MapSet(memoryCache,
                           CacheEntry(key, data, now, now + EffectiveTTL(ttl))),
                    cacheConfig.maxEntries)
            /\ StartSave
    /\ cacheLast' = [op |-> "set", enabled |-> cacheConfig.enabled,
                     evicted |-> Len(memoryCache) > Len(memoryCache'),
                     key |-> key, data |-> data, ttl |-> ttl,
                     removed |-> Cardinality(KeysOf(memoryCache) \cup {key})
                                    - Len(memoryCache')]
    /\ UNCHANGED <<notCache, now, cacheConfig, disk, loadPc, saveWrites>>

\* The lookup get and has share: the entry found, whether it counts as
\* present, and the map after the lazy eviction
Lookup(key) ==
    LET found == cacheConfig.enabled /\ key \in KeysOf(memoryCache)
        entry == IF found THEN memoryCache[IndexOfKey(memoryCache, key)]
                 ELSE Nothing
        live == found /\ ~isExpired(entry, now)
    IN  [found |-> found, entry |-> entry, live |-> live,
         memoryCache |-> IF found /\ ~live THEN MapDelete(memoryCache, key)
                         ELSE memoryCache]

CacheManager_get(key) ==
    /\ CacheOp
    /\ LET r == Lookup(key)
       IN  /\ memoryCache' = r.memoryCache
           /\ cacheLast' = [op |-> "get", found |-> r.found,
                            entry |-> r.entry,
                            result |-> IF r.live THEN r.entry.data ELSE "null"]
    /\ UNCHANGED <<notCache, now, cacheConfig, disk, loadPc, saveEnsure, saveWrites>>

CacheManager_has(key) ==
    /\ CacheOp
    /\ LET r == Lookup(key)
       IN  /\ memoryCache' = r.memoryCache
           /\ cacheLast' = [op |-> "has", found |-> r.found,
                            entry |-> r.entry, result |-> r.live]
    /\ UNCHANGED <<notCache, now, cacheConfig, disk, loadPc, saveEnsure, saveWrites>>

CacheManager_delete(key) ==
    /\ CacheOp
    /\ LET deleted == cacheConfig.enabled /\ key \in KeysOf(memoryCache)
       IN  /\ memoryCache' = IF deleted THEN MapDelete(memoryCache, key)
                             ELSE memoryCache
           /\ IF deleted THEN StartSave ELSE saveEnsure' = saveEnsure
           /\ cacheLast' = [op |-> "delete"]
    /\ UNCHANGED <<notCache, now, cacheConfig, disk, loadPc, saveWrites>>

CacheManager_clear ==
    /\ CacheOp
    /\ memoryCache' = <<>>
    /\ StartSave
    /\ cacheLast' = [op |-> "clear"]
    /\ UNCHANGED <<notCache, now, cacheConfig, disk, loadPc, saveWrites>>

CacheManager_cleanup ==
    /\ CacheOp
    /\ memoryCache' = enforceSizeLimit(cleanExpired(memoryCache, now),
                                       cacheConfig.maxEntries)
    /\ StartSave
    /\ cacheLast' = [op |-> "cleanup"]
    /\ UNCHANGED <<notCache, now, cacheConfig, disk, loadPc, saveWrites>>

\* importCache(filePath) of a file holding `file`
CacheManager_importCache(file) ==
    /\ CacheOp
    /\ file.exists
    /\ memoryCache' = enforceSizeLimit(
                          RestoreEntries(memoryCache, file.entries, now),
                                       cacheConfig.maxEntries)
    /\ cacheLast' = [op |-> "importCache"]
    /\ UNCHANGED <<notCache, now, cacheConfig, disk, loadPc, saveEnsure, saveWrites>>

CacheManager_updateConfig(maxEntries) ==
    /\ CacheOp
    /\ maxEntries # cacheConfig.maxEntries
    /\ cacheConfig' = [cacheConfig EXCEPT !.maxEntries = maxEntries]
    /\ cacheLast' = [op |-> "updateConfig"]
    /\ UNCHANGED <<notCache, now, memoryCache, disk, loadPc, saveEnsure, saveWrites>>

\* loadFromDisk: fs.pathExists answers (an error is caught and logged)
LoadPathExists ==
    /\ loadPc = "pathExists"
    /\ \/ /\ loadPc' = IF disk.exists THEN "readJSON" ELSE "done"
          /\ DiskStep(FALSE)
       \/ /\ loadPc' = "done"
          /\ DiskStep(TRUE)
    /\ cacheLast' = [op |-> "load"]
    /\ UNCHANGED <<notCache, now, cacheConfig, memoryCache, disk, saveEnsure,
                   saveWrites, cacheOps>>

\* loadFromDisk: fs.readJSON answers, the entries are restored (an error is
\* caught and logged)
LoadReadJSON ==
    /\ loadPc = "readJSON"
    /\ loadPc' = "done"
    /\ \/ /\ memoryCache' = IF disk.exists
                            THEN RestoreEntries(memoryCache, disk.entries, now)
                            ELSE memoryCache
          /\ DiskStep(FALSE)
       \/ /\ memoryCache' = memoryCache
          /\ DiskStep(TRUE)
    /\ cacheLast' = [op |-> "load"]
    /\ UNCHANGED <<notCache, now, cacheConfig, disk, saveEnsure, saveWrites,
                   cacheOps>>

\* saveToDisk: fs.ensureDir answers; expired entries are cleaned and the
\* snapshot is handed to fs.writeJSON (an error is caught and logged)
SaveEnsureDir ==
    /\ saveEnsure > 0
    /\ saveEnsure' = saveEnsure - 1
    /\ \/ /\ memoryCache' = cleanExpired(memoryCache, now)
          /\ saveWrites' = saveWrites \cup {cleanExpired(memoryCache, now)}
          /\ DiskStep(FALSE)
       \/ /\ UNCHANGED <<memoryCache, saveWrites>>
          /\ DiskStep(TRUE)
    /\ cacheLast' = [op |-> "save"]
    /\ UNCHANGED <<notCache, now, cacheConfig, disk, loadPc, cacheOps>>

\* saveToDisk without its try and catch: a failure of fs.writeJSON rejects
\* the promise nobody awaits
SaveWriteJSONUncaught ==
    /\ \E data \in saveWrites :
          /\ saveWrites' = saveWrites \ {data}
          /\ \/ /\ disk' = File(data)
                /\ DiskStep(FALSE)
             \/ /\ disk' = disk
                /\ DiskStepUncaught
    /\ cacheLast' = [op |-> "save"]
    /\ UNCHANGED <<notCache, now, cacheConfig, memoryCache, loadPc, saveEnsure,
                   cacheOps>>

\* saveToDisk: fs.writeJSON answers (an error is caught and logged)
SaveWriteJSON ==
    /\ \E data \in saveWrites :
          /\ saveWrites' = saveWrites \ {data}
          /\ \/ /\ disk' = File(data)
                /\ DiskStep(FALSE)
             \/ /\ disk' = disk
                /\ DiskStep(TRUE)
    /\ cacheLast' = [op |-> "save"]
    /\ UNCHANGED <<notCache, now, cacheConfig, memoryCache, loadPc, saveEnsure,
                   cacheOps>>

CacheTick ==
    /\ now < MaxClock
    /\ now' = now + 1
    /\ cacheLast' = [op |-> "tick"]
    /\ UNCHANGED <<notCache, cacheConfig, memoryCache, disk, loadPc,
                   saveEnsure, saveWrites, cacheOps, diskLog>>

CacheNext ==
    \/ \E call \in SetCalls : CacheManager_set(call[1], call[2], call[3])
    \/ \E key \in CacheKeys : CacheManager_get(key)
    \/ \E key \in CacheKeys : CacheManager_has(key)
    \/ \E key \in CacheKeys : CacheManager_delete(key)
    \/ CacheManager_clear
    \/ CacheManager_cleanup
    \/ \E file \in SnapshotFiles : CacheManager_importCache(file)
    \/ \E maxEntries \in MaxEntriesChoices :
          CacheManager_updateConfig(maxEntries)
    \/ LoadPathExists
    \/ LoadReadJSON
    \/ SaveEnsureDir
    \/ SaveWriteJSON
    \/ CacheTick

\* The calls and disk operations of a persistent cache
DiskNext ==
    \/ \E call \in { c \in SetCalls : c[1] \in DiskKeys } :
          CacheManager_set(call[1], call[2], call[3])
    \/ \E key \in DiskKeys : CacheManager_get(key)
    \/ \E key \in DiskKeys : CacheManager_delete(key)
    \/ CacheManager_clear
    \/ CacheManager_cleanup
    \/ LoadPathExists
    \/ LoadReadJSON
    \/ SaveEnsureDir
    \/ SaveWriteJSON
    \/ CacheTick

-----------------------------------------------------------------------------------------------------------------------------------------------------
(* LLMClient: pure functions *)

\* The aggregate store handed to batchTranslateTexts: key i holds the source
\* text Source(i); Translated(i) is a translation of it
Source(i) == <<"zh", i>>
Translated(i) == <<"en", i>>
Unrelated == <<"en", 0>>

TextsOfSize(n) == [i \in 1..n |-> [key |-> i, text |-> Source(i)]]

Min(a, b) == IF a < b THEN a ELSE b

\* A slice that runs one key into the next batch
BatchKeysOverlapping(texts, i, batchSize) ==
    { texts[j].key : j \in (i + 1)..Min(i + batchSize + 1, Len(texts)) }

\* keys.slice(i, i + batchSize), i counted from 0
BatchKeys(texts, i, batchSize) ==
    { texts[j].key : j \in (i + 1)..Min(i + batchSize, Len(texts)) }

TextOfKey(texts, key) ==
    texts[CHOOSE j \in 1..Len(texts) : texts[j].key = key].text

\* Object.assign(target, source)
ObjectAssign(target, source) ==
    [k \in (DOMAIN target) \cup (DOMAIN source) |->
        IF k \in DOMAIN source THEN source[k] ELSE target[k]]

\* A payload is text that is no JSON (InvalidJSON), the JSON null, or a
\* JSON object, written as the record of its fields; MissingField is an
\* object with none of the fields the parsers look for.  Reading a field of
\* null throws inside the parser's try, like a missing field.
MissingField == [missing |-> TRUE]
InvalidJSON == [invalid |-> TRUE]
JSONNull == [null |-> TRUE]

\* What the provider may answer for a batch: the payload bare or in a fence,
\* the payload being no JSON, JSON without translations, or JSON whose
\* translations cover the batch, miss one of its keys, or carry a key of
\* another batch
Payloads(texts, keys) ==
    LET exact == [k \in keys |-> Translated(k)]
        all == { texts[j].key : j \in 1..Len(texts) }
    IN  {InvalidJSON, MissingField, [translations |-> exact]}
        \cup { [translations |-> [k \in keys \ {d} |-> Translated(k)]] :
                 d \in keys }
        \cup { [translations |-> ObjectAssign(exact, [k \in {f} |-> Unrelated])] :
                 f \in all \ keys }

Wraps == {"bare", "json fence", "plain fence"}

Responses(texts, keys) ==
    [wrap : Wraps, payload : Payloads(texts, keys)]

\* The same, and more ways to wrap the payload: text around the json
\* fence, a fence with another language tag, text around the bare payload
ParseWraps == Wraps \cup {"json fence in text", "js fence", "bare in text"}

\* response.match(/```json\s*([\s\S]*?)\s*```/), then JSON.parse of the
\* group matched, or of the whole response when nothing matches
ParsedJSON(response) ==
    IF response.wrap \in {"bare", "json fence", "json fence in text"}
    THEN response.payload
    ELSE InvalidJSON

\* parseTranslationResponse: the translations, or a parse error
parseTranslationResponse(response) ==
    LET parsed == ParsedJSON(response)
    IN  IF parsed = InvalidJSON \/ "translations" \notin DOMAIN parsed
        THEN [ok |-> FALSE]
        ELSE [ok |-> TRUE, translations |-> parsed.translations]

\* The loop condition of invokeWithRetry one attempt short
mayRetryOneShort(n, maxRetries) == n + 1 < maxRetries

\* attempt < maxRetries: whether another attempt follows failed attempt n
mayRetry(n, maxRetries) == n < maxRetries

\* Math.pow(2, attempt) * 1000
RECURSIVE Pow2(_)
Pow2(n) == IF n = 0 THEN 1 ELSE 2 * Pow2(n - 1)

\* the delay with the attempts counted from one
backoffDelayFromOne(n) == Pow2(n + 1) * 1000

backoffDelay(n) == Pow2(n) * 1000

ProviderErrors == {"timeout", "rate limit"}

-----------------------------------------------------------------------------
(* LLMClient: batchTranslateTexts and what it calls *)

LLMInit ==
    /\ llmConfig \in [retryCount : 0..MaxRetries, batchSize : 1..MaxBatchSize]
    /\ llmTexts \in { TextsOfSize(n) : n \in 0..MaxTexts }
    /\ llmPc = "start"
    /\ batchStart = 0
    /\ translations = EmptyMap
    /\ attempt = 0
    /\ lastError = Nothing
    /\ retryLog = <<>>
    /\ sleepLog = <<>>
    /\ retryLast = Nothing
    /\ batchLog = <<>>

CurrentBatch == BatchKeys(llmTexts, batchStart, llmConfig.batchSize)

\* The end of one pass of the for loop: i += batchSize, then the loop test
NextPass(outcome, newTranslations) ==
    /\ translations' = newTranslations
    /\ batchLog' = Append(batchLog, [keys |-> CurrentBatch] @@ outcome)
    /\ batchStart' = batchStart + llmConfig.batchSize
    /\ llmPc' = IF batchStart + llmConfig.batchSize < Len(llmTexts)
                THEN "compile" ELSE "done"

\* The catch of the loop body: the keys of the batch get their source text
Fallback(reason) ==
    NextPass([outcome |-> reason],
             ObjectAssign(translations,
                          [k \in CurrentBatch |-> TextOfKey(llmTexts, k)]))

\* batchTranslateTexts is called: the loop test, then translateBatch up to
\* the await of compileTranslationTemplate
BatchTranslateTexts ==
    /\ llmPc = "start"
    /\ llmPc' = IF 0 < Len(llmTexts) THEN "compile" ELSE "done"
    /\ UNCHANGED <<notLLM, llmConfig, llmTexts, batchStart, translations,
                   attempt, lastError, retryLog, sleepLog, retryLast,
                   batchLog>>

\* compileTranslationTemplate answers: translateTexts, invokeWithRetry and
\* the first llm.invoke
TemplateCompiled ==
    /\ llmPc = "compile"
    /\ llmPc' = "invoke"
    /\ attempt' = 0
    /\ lastError' = Nothing
    /\ retryLog' = <<>>
    /\ sleepLog' = <<>>
    /\ UNCHANGED <<notLLM, llmConfig, llmTexts, batchStart, translations,
                   retryLast, batchLog>>

\* compileTranslationTemplate throws
TemplateFails ==
    /\ llmPc = "compile"
    /\ Fallback("template error")
    /\ UNCHANGED <<notLLM, llmConfig, llmTexts, attempt, lastError, retryLog,
                   sleepLog, retryLast>>

\* llm.invoke answers: invokeWithRetry returns the response,
\* parseTranslationResponse parses it, Object.assign or the catch follows.
\* The variant returns the response only on the last attempt allowed and
\* goes on to the next attempt otherwise.
ProviderAnswersGoingOn(response) ==
    /\ llmPc = "invoke"
    /\ retryLog' = Append(retryLog, [answer |-> TRUE])
    /\ IF mayRetry(attempt, llmConfig.retryCount)
       THEN /\ llmPc' = "sleep"
            /\ UNCHANGED <<batchStart, translations, retryLast, batchLog>>
       ELSE /\ retryLast' = [outcome |-> "returned",
                             calls |-> Len(retryLog) + 1,
                             failures |-> Len(retryLog),
                             maxRetries |-> llmConfig.retryCount]
            /\ LET parsed == parseTranslationResponse(response)
               IN  IF parsed.ok
                   THEN NextPass([outcome |-> "translated",
                                  response |-> parsed.translations],
                                 ObjectAssign(translations,
                                              parsed.translations))
                   ELSE Fallback("parse error")
    /\ UNCHANGED <<notLLM, llmConfig, llmTexts, attempt, lastError,
                   sleepLog>>

ProviderAnswers(response) ==
    /\ llmPc = "invoke"
    /\ retryLog' = Append(retryLog, [answer |-> TRUE])
    /\ retryLast' = [outcome |-> "returned", calls |-> Len(retryLog) + 1,
                     failures |-> Len(retryLog),
                     maxRetries |-> llmConfig.retryCount]
    /\ LET parsed == parseTranslationResponse(response)
       IN  IF parsed.ok
           THEN NextPass([outcome |-> "translated",
                          response |-> parsed.translations],
                         ObjectAssign(translations, parsed.translations))
           ELSE Fallback("parse error")
    /\ UNCHANGED <<notLLM, llmConfig, llmTexts, attempt, lastError,
                   sleepLog>>

\* llm.invoke throws: the catch of invokeWithRetry, then either
\* sleep(delay) before the next attempt or the throw after the last one
ProviderFails(error) ==
    /\ llmPc = "invoke"
    /\ lastError' = [error |-> error, call |-> Len(retryLog) + 1]
    /\ retryLog' = Append(retryLog, [error |-> error,
                                     call |-> Len(retryLog) + 1])
    /\ IF mayRetry(attempt, llmConfig.retryCount)
       THEN /\ llmPc' = "sleep"
            /\ sleepLog' = Append(sleepLog, [after |-> attempt,
                                             ms |-> backoffDelay(attempt)])
            /\ UNCHANGED <<batchStart, translations, retryLast, batchLog>>
       ELSE /\ sleepLog' = sleepLog
            /\ retryLast' = [outcome |-> "raised", calls |-> Len(retryLog) + 1,
                             failures |-> Len(retryLog) + 1,
                             maxRetries |-> llmConfig.retryCount,
                             error |-> lastError', log |-> retryLog']
            /\ Fallback("call error")
    /\ UNCHANGED <<notLLM, llmConfig, llmTexts, attempt>>

\* The backoff sleep ends: attempt++ and the next llm.invoke
SleepEnds ==
    /\ llmPc = "sleep"
    /\ attempt' = attempt + 1
    /\ llmPc' = "invoke"
    /\ UNCHANGED <<notLLM, llmConfig, llmTexts, batchStart, translations,
                   lastError, retryLog, sleepLog, retryLast, batchLog>>

LLMNext ==
    \/ BatchTranslateTexts
    \/ TemplateCompiled
    \/ TemplateFails
    \/ \E response \in Responses(llmTexts, CurrentBatch) :
          ProviderAnswers(response)
    \/ \E error \in ProviderErrors : ProviderFails(error)
    \/ SleepEnds

-----------------------------------------------------------------------------
(* CodeTransformer and FileProcessor: pure functions *)

\* Code is a sequence of word tokens; a placeholder is one token

\* What extractTexts may return for a file: the placeholder map in
\* Object.entries order and the code with the placeholders in it
Extraction(extractedTexts, transformedCode) ==
    [extractedTexts |-> extractedTexts, transformedCode |-> transformedCode]

ExtractionChoices ==
    { Extraction(<<<<"__P1__", TextTiJiao>>>>, <<"call", "('", "__P1__", "')">>),
      Extraction(<<<<"__P1__", TextYiYi>>>>,
                 <<"t", "('", "__P1__", "')", " ", "t", "('", "__P1__", "')">>),
      Extraction(<<<<"__P1__", TextYiYi2>>, <<"__P2__", TextTiJiao>>>>,
                 <<"t", "('", "__P1__", "')", " ", "t", "('", "__P2__", "')">>) }

\* generateKeyMapping on a generator that de-duplicates whatever
\* reuseExistingKey says
RECURSIVE generateKeyMappingNoReuse(_, _, _, _, _)
generateKeyMappingNoReuse(cfg, keys, memo, extractedTexts, time) ==
    IF Len(extractedTexts) = 0
    THEN [keyMapping |-> <<>>, existingKeys |-> keys, textToKeyMap |-> memo]
    ELSE LET entry == Head(extractedTexts)
             r == generateKeyIgnoringReuse(cfg, keys, memo, entry[2], time)
             rest == generateKeyMappingNoReuse(cfg, r.existingKeys,
                                               r.textToKeyMap,
                                               Tail(extractedTexts), time)
         IN  [keyMapping |-> <<<<entry[1], r.key>>>> \o rest.keyMapping,
              existingKeys |-> rest.existingKeys,
              textToKeyMap |-> rest.textToKeyMap]

\* generateKeyMapping: generateKey for every entry of extractedTexts, in
\* order, on the transformer's KeyGenerator
RECURSIVE generateKeyMapping(_, _, _, _, _)
generateKeyMapping(cfg, keys, memo, extractedTexts, time) ==
    IF Len(extractedTexts) = 0
    THEN [keyMapping |-> <<>>, existingKeys |-> keys, textToKeyMap |-> memo]
    ELSE LET entry == Head(extractedTexts)
             r == generateKey(cfg, keys, memo, entry[2], time)
             rest == generateKeyMapping(cfg, r.existingKeys, r.textToKeyMap,
                                        Tail(extractedTexts), time)
         IN  [keyMapping |-> <<<<entry[1], r.key>>>> \o rest.keyMapping,
              existingKeys |-> rest.existingKeys,
              textToKeyMap |-> rest.textToKeyMap]

\* Code is a sequence of letters.  A letter is a run of word characters
\* (\w: letters, digits, '_') that the model never splits, or one of the
\* characters below, which are not word characters.
NonWordLetters == {"('", "')", " "}

IsWord(letter) == letter \notin NonWordLetters

\* The letters of a string.  The placeholders __I18N_1__ and __I18N_10__
\* share their first letter; every other string of the model is one letter.
Chunks(string) ==
    CASE string = "__I18N_1__" -> <<"__I18N_1", "__">>
      [] string = "__I18N_10__" -> <<"__I18N_1", "0", "__">>
      [] OTHER -> <<string>>

\* Whether the letter at position p exists and is a word character
WordAt(code, p) == p >= 1 /\ p <= Len(code) /\ IsWord(code[p])

\* \b in front of position p: a word character on exactly one side
Boundary(code, p) == WordAt(code, p - 1) # WordAt(code, p)

\* Whether the regular expression \b<pattern>\b matches at position p
MatchesAt(code, p, pattern) ==
    /\ p + Len(pattern) - 1 <= Len(code)
    /\ \A j \in 1..Len(pattern) : code[p + j - 1] = pattern[j]
    /\ Boundary(code, p)
    /\ Boundary(code, p + Len(pattern))

\* String.prototype.replace with a global regular expression: the matches
\* from left to right, none overlapping, the replacement never scanned again
RECURSIVE ReplaceFrom(_, _, _, _)
ReplaceFrom(code, p, pattern, replacement) ==
    IF p > Len(code) THEN <<>>
    ELSE IF MatchesAt(code, p, pattern)
         THEN replacement
                  \o ReplaceFrom(code, p + Len(pattern), pattern, replacement)
         ELSE <<code[p]>> \o ReplaceFrom(code, p + 1, pattern, replacement)

\* result.replace(new RegExp(`\\b${tempKey}\\b`, 'g'), realKey)
ReplaceToken(code, tempKey, realKey) ==
    ReplaceFrom(code, 1, Chunks(tempKey), Chunks(realKey))

\* replaceTempKeys: one replace per entry of keyMapping, in order, each on
\* the result of the one before
RECURSIVE replaceTempKeys(_, _)
replaceTempKeys(code, keyMapping) ==
    IF Len(keyMapping) = 0 THEN code
    ELSE replaceTempKeys(ReplaceToken(code, Head(keyMapping)[1],
                                      Head(keyMapping)[2]),
                         Tail(keyMapping))

\* keyMapping[tempKey], "" standing for undefined
RealKeyOf(keyMapping, tempKey) ==
    IF \E i \in 1..Len(keyMapping) : keyMapping[i][1] = tempKey
    THEN keyMapping[CHOOSE i \in 1..Len(keyMapping) :
                        keyMapping[i][1] = tempKey][2]
    ELSE ""

\* The loop that collects the extracted texts of a written file
RECURSIVE collectTexts(_, _, _)
collectTexts(store, extractedTexts, keyMapping) ==
    IF Len(extractedTexts) = 0 THEN store
    ELSE LET tempKey == Head(extractedTexts)[1]
             text == Head(extractedTexts)[2]
             realKey == RealKeyOf(keyMapping, tempKey)
         IN  collectTexts(IF realKey # "" THEN Put(store, realKey, text)
                          ELSE store,
                          Tail(extractedTexts), keyMapping)

\* The slice taken one file too long
BatchOneMore(i, concurrency, n) ==
    { u \in 1..n : i < u /\ u <= i + concurrency + 1 }

\* files.slice(i, i + concurrency), as indices into units
Batch(i, concurrency, n) == { u \in 1..n : i < u /\ u <= i + concurrency }

\* a promise that settles only by fulfilling
TerminalWrittenOnly(unit) == unit.pc = "Written"

Terminal(unit) == unit.pc \in {"Written", "Failed"}

\* The FileProcessResult of a settled processFile call
ResultOf(u, unit) ==
    [filePath |-> u,
     success |-> unit.pc = "Written",
     extractedCount |-> IF unit.pc = "Written"
                        THEN Len(unit.extraction.extractedTexts) ELSE 0]

RECURSIVE SeqOfSet(_)
SeqOfSet(S) ==
    IF S = {} THEN <<>>
    ELSE LET least == CHOOSE u \in S : \A v \in S : u <= v
         IN  <<least>> \o SeqOfSet(S \ {least})

\* The pass over batchResults that keeps the fulfilled successes only
BatchResultsSuccessesOnly(batch, us) ==
    LET order == SeqOfSet({ u \in batch : us[u].pc = "Written" })
    IN  [j \in 1..Len(order) |-> ResultOf(order[j], us[order[j]])]

\* The pass over batchResults: one result per file of the batch, in order
BatchResults(batch, us) ==
    LET order == SeqOfSet(batch)
    IN  [j \in 1..Len(order) |-> ResultOf(order[j], us[order[j]])]

RECURSIVE SumExtracted(_)
SumExtracted(rs) ==
    IF Len(rs) = 0 THEN 0
    ELSE Head(rs).extractedCount + SumExtracted(Tail(rs))

Succeeded(r) == r.success
NotSucceeded(r) == ~r.success

\* The ProcessingStats processAll returns
ProcessingStats(rs, translatedCount) ==
    LET failed == SelectSeq(rs, NotSucceeded)
    IN  [filesProcessed |-> Len(SelectSeq(rs, Succeeded)),
         textsExtracted |-> SumExtracted(rs),
         textsTranslated |-> translatedCount,
         failedFiles |-> [j \in 1..Len(failed) |-> failed[j].filePath]]

-----------------------------------------------------------------------------
(* FileProcessor: processAll and the processFile calls it starts *)

ProcInit ==
    /\ procConfig \in [concurrency : 0..MaxConcurrency,
                        skipTranslate : {"unread"}]
    /\ kgConfig \in [reuseExistingKey : BOOLEAN, keyPrefix : {""},
                      separator : {separator},
                      pinyinOptions : {DefaultPinyinOptions}]
    /\ existingKeys = {}
    /\ textToKeyMap = EmptyMap
    /\ procPc = "start"
    /\ procI = 0
    /\ units = <<>>
    /\ results = <<>>
    /\ allExtractedTexts = EmptyMap
    /\ diskFiles = EmptyMap
    /\ localeFile = Nothing
    /\ stats = Nothing

\* The error of a failure result: what failed and the diagnostics in the
\* message
UnitError(step, diagnostics) == [step |-> step, diagnostics |-> diagnostics]

NoError == UnitError("", <<>>)

\* SyntaxValidator.validateSyntax: a parse error makes the verdict negative
\* and is its one error; the static checks only add warnings
Verdicts ==
    { [valid |-> TRUE, warnings |-> <<>>, errors |-> <<>>],
      [valid |-> TRUE, warnings |-> <<"unclosed bracket">>, errors |-> <<>>],
      [valid |-> FALSE, warnings |-> <<>>, errors |-> <<"syntax error">>] }

\* CodeTransformer.validateSyntax: valid, and warnings followed by errors
validateSyntax(verdict) ==
    [isValid |-> verdict.valid, warnings |-> verdict.warnings \o verdict.errors]

QueuedUnit ==
    [pc |-> "queued", extraction |-> Nothing, keyMapping |-> <<>>,
     transformedCode |-> <<>>, verdict |-> Nothing, error |-> NoError]

FailedUnit(error) == [QueuedUnit EXCEPT !.pc = "Failed", !.error = error]

CurrentUnits == Batch(procI, procConfig.concurrency, Len(units))

\* processFile(file) up to its first await, fs.readFile
StartBatch(us, batch) ==
    [u \in 1..Len(us) |->
        IF u \in batch THEN [us[u] EXCEPT !.pc = "reading"] ELSE us[u]]

\* processFilesConcurrently from the loop test at index i with the results
\* rs: either the next batch starts and Promise.allSettled is awaited, or
\* the loop ends and processAll awaits writeLocalizationFiles
LoopFrom(i, us, rs) ==
    /\ procI' = i
    /\ results' = rs
    /\ IF i < Len(us)
       THEN /\ units' = StartBatch(us, Batch(i, procConfig.concurrency,
                                             Len(us)))
            /\ procPc' = "awaiting"
       ELSE /\ units' = us
            /\ procPc' = "locales"

\* processAll is called: it awaits scanner.scan()
ProcessAll ==
    /\ procPc = "start"
    /\ procPc' = "scanning"
    /\ UNCHANGED <<now, existingKeys, textToKeyMap, notProc, procConfig,
                   procI, units, results, allExtractedTexts, diskFiles,
                   localeFile, stats>>

\* The scan returns n files to process: the first pass of the loop
ScanReturns(n) ==
    /\ procPc = "scanning"
    /\ LoopFrom(0, [u \in 1..n |-> QueuedUnit], <<>>)
    /\ UNCHANGED <<now, existingKeys, textToKeyMap, notProc, procConfig,
                   allExtractedTexts, diskFiles, localeFile, stats>>

\* The scan throws: the catch of processAll rethrows
ScanFails ==
    /\ procPc = "scanning"
    /\ procPc' = "thrown"
    /\ UNCHANGED <<now, existingKeys, textToKeyMap, notProc, procConfig,
                   procI, units, results, allExtractedTexts, diskFiles,
                   localeFile, stats>>

\* A step of the processFile call of unit u leaves everything of processAll
\* but units alone
UnitStep(u, from, unit) ==
    /\ procPc = "awaiting"
    /\ u \in 1..Len(units)
    /\ units[u].pc = from
    /\ units' = [units EXCEPT ![u] = unit]
    /\ UNCHANGED <<now, notProc, procConfig, procPc, procI, results,
                   localeFile, stats>>

\* The catch of processFile: the locals of the call are gone, the failure
\* result carries the error
UnitFails(u, from, error) ==
    /\ UnitStep(u, from, FailedUnit(UnitError(error, <<>>)))
    /\ UNCHANGED <<existingKeys, textToKeyMap, allExtractedTexts, diskFiles>>

\* fs.readFile returns: extractFromFile runs up to the provider call
ReadReturns(u) ==
    /\ UnitStep(u, "reading", [units[u] EXCEPT !.pc = "extracting"])
    /\ UNCHANGED <<existingKeys, textToKeyMap, allExtractedTexts, diskFiles>>

ReadFails(u) == UnitFails(u, "reading", "read")

\* extractFromFile returns: transformCode generates the key mapping,
\* replaces the placeholders and awaits processAutoImport
ExtractReturns(u, extraction) ==
    LET r == generateKeyMapping(kgConfig, existingKeys, textToKeyMap,
                                extraction.extractedTexts, now)
    IN  /\ UnitStep(u, "extracting",
                    [units[u] EXCEPT
                        !.pc = "transforming",
                        !.extraction = extraction,
                        !.keyMapping = r.keyMapping,
                        !.transformedCode =
                            replaceTempKeys(extraction.transformedCode,
                                            r.keyMapping)])
        /\ existingKeys' = r.existingKeys
        /\ textToKeyMap' = r.textToKeyMap
        /\ UNCHANGED <<allExtractedTexts, diskFiles>>

\* compileTemplate or extractTexts throws
ExtractFails(u, error) == UnitFails(u, "extracting", error)

\* History kept with the unit: the negative verdict it received, if any
Rejection(verdict) == IF verdict.valid THEN Nothing ELSE verdict

\* processFile that writes whatever the verdict is
AfterValidationIgnored(unit, verdict) ==
    [unit EXCEPT !.pc = "writing", !.verdict = Rejection(verdict)]

\* processFile from the return of transformCode: isValid false throws with
\* the warnings in the message, isValid true calls writeProcessedFile
AfterValidation(unit, verdict) ==
    LET transformResult == validateSyntax(verdict)
    IN  IF transformResult.isValid
        THEN [unit EXCEPT !.pc = "writing", !.verdict = Rejection(verdict)]
        ELSE [FailedUnit(UnitError("validation", transformResult.warnings))
                EXCEPT !.verdict = Rejection(verdict)]

\* processAutoImport returns and validateSyntax gives its verdict: a
\* negative one throws, a positive one calls writeProcessedFile
TransformReturns(u, verdict) ==
    /\ UnitStep(u, "transforming", AfterValidation(units[u], verdict))
    /\ UNCHANGED <<existingKeys, textToKeyMap, allExtractedTexts, diskFiles>>

\* processAutoImport throws: transformCode rethrows
TransformFails(u) == UnitFails(u, "transforming", "transform")

\* writeProcessedFile returns success: the texts of the file are collected
WriteReturns(u) ==
    /\ UnitStep(u, "writing", [units[u] EXCEPT !.pc = "Written"])
    /\ diskFiles' = Put(diskFiles, u, units[u].transformedCode)
    /\ allExtractedTexts' = collectTexts(allExtractedTexts,
                                         units[u].extraction.extractedTexts,
                                         units[u].keyMapping)
    /\ UNCHANGED <<existingKeys, textToKeyMap>>

\* writeProcessedFile returns a failure: the variant merges the unit's pairs
\* into the aggregate store before the failure is reported
WriteFailsAfterCollect(u) ==
    /\ UnitStep(u, "writing", FailedUnit(UnitError("write", <<>>)))
    /\ allExtractedTexts' = collectTexts(allExtractedTexts,
                                         units[u].extraction.extractedTexts,
                                         units[u].keyMapping)
    /\ UNCHANGED <<existingKeys, textToKeyMap, diskFiles>>

WriteFails(u) == UnitFails(u, "writing", "write")

\* Promise.allSettled resolves: the results of the batch are pushed, i moves
\* on and the loop test follows.  The variant goes on without awaiting the
\* promises of the batch.
SettleBatchUnawaited ==
    /\ procPc = "awaiting"
    /\ LoopFrom(procI + procConfig.concurrency, units,
                results \o BatchResults(CurrentUnits, units))
    /\ UNCHANGED <<now, existingKeys, textToKeyMap, notProc, procConfig,
                   allExtractedTexts, diskFiles, localeFile, stats>>

SettleBatch ==
    /\ procPc = "awaiting"
    /\ \A u \in CurrentUnits : Terminal(units[u])
    /\ LoopFrom(procI + procConfig.concurrency, units,
                results \o BatchResults(CurrentUnits, units))
    /\ UNCHANGED <<now, existingKeys, textToKeyMap, notProc, procConfig,
                   allExtractedTexts, diskFiles, localeFile, stats>>

\* What processTranslation may return: the number of keys of the record
\* batchTranslateTexts returned, or 0 when it or the file write failed
TranslatedCounts(store) == {0, Cardinality(DOMAIN store)}

\* processAll that goes on to processTranslation whatever
\* options.skipTranslate says
LocalesReturnIgnoringSkip(ok, skipTranslate) ==
    /\ procPc = "locales"
    /\ procConfig' = [procConfig EXCEPT !.skipTranslate = skipTranslate]
    /\ localeFile' = IF DOMAIN allExtractedTexts # {} /\ ok
                     THEN allExtractedTexts ELSE localeFile
    /\ IF DOMAIN allExtractedTexts # {}
       THEN /\ procPc' = "translating"
            /\ stats' = stats
       ELSE /\ procPc' = "returned"
            /\ stats' = ProcessingStats(results, 0)
    /\ UNCHANGED <<now, existingKeys, textToKeyMap, notProc, procI, units,
                   results, allExtractedTexts, diskFiles>>

\* writeLocalizationFiles returns (it catches what it raises): either
\* processTranslation is awaited or processAll returns its statistics.
\* options.skipTranslate is read here and nowhere else, so its value
\* ("yes" or "no") is chosen here
LocalesReturn(ok, skipTranslate) ==
    /\ procPc = "locales"
    /\ procConfig' = [procConfig EXCEPT !.skipTranslate = skipTranslate]
    /\ localeFile' = IF DOMAIN allExtractedTexts # {} /\ ok
                     THEN allExtractedTexts ELSE localeFile
    /\ IF skipTranslate = "no" /\ DOMAIN allExtractedTexts # {}
       THEN /\ procPc' = "translating"
            /\ stats' = stats
       ELSE /\ procPc' = "returned"
            /\ stats' = ProcessingStats(results, 0)
    /\ UNCHANGED <<now, existingKeys, textToKeyMap, notProc, procI, units,
                   results, allExtractedTexts, diskFiles>>

\* processTranslation that lets what it raises through to processAll
TranslationReturnsRaising(count) ==
    /\ procPc = "translating"
    /\ IF count = 0
       THEN procPc' = "thrown" /\ stats' = stats
       ELSE procPc' = "returned" /\ stats' = ProcessingStats(results, count)
    /\ UNCHANGED <<now, existingKeys, textToKeyMap, notProc, procConfig,
                   procI, units, results, allExtractedTexts, diskFiles,
                   localeFile>>

\* processTranslation returns (it catches what it raises)
TranslationReturns(count) ==
    /\ procPc = "translating"
    /\ procPc' = "returned"
    /\ stats' = ProcessingStats(results, count)
    /\ UNCHANGED <<now, existingKeys, textToKeyMap, notProc, procConfig,
                   procI, units, results, allExtractedTexts, diskFiles,
                   localeFile>>

\* Time passes while the batch is awaited.  Only handleDuplicateKey reads
\* the clock, and only with reuseExistingKey off
ProcTick ==
    /\ procPc = "awaiting"
    /\ ~kgConfig.reuseExistingKey
    /\ now < MaxClock
    /\ now' = now + 1
    /\ UNCHANGED <<existingKeys, textToKeyMap, notProc, procVars>>

ProcNext ==
    \/ ProcessAll
    \/ \E n \in 0..MaxFiles : ScanReturns(n)
    \/ ScanFails
    \/ \E u \in 1..MaxFiles : ReadReturns(u)
    \/ \E u \in 1..MaxFiles : ReadFails(u)
    \/ \E u \in 1..MaxFiles : \E extraction \in ExtractionChoices :
          ExtractReturns(u, extraction)
    \/ \E u \in 1..MaxFiles : \E error \in {"provider", "parse"} :
          ExtractFails(u, error)
    \/ \E u \in 1..MaxFiles : \E verdict \in Verdicts :
          TransformReturns(u, verdict)
    \/ \E u \in 1..MaxFiles : TransformFails(u)
    \/ \E u \in 1..MaxFiles : WriteReturns(u)
    \/ \E u \in 1..MaxFiles : WriteFails(u)
    \/ SettleBatch
    \/ \E ok \in BOOLEAN : \E skipTranslate \in {"yes", "no"} :
          LocalesReturn(ok, skipTranslate)
    \/ \E count \in TranslatedCounts(allExtractedTexts) :
          TranslationReturns(count)
    \/ ProcTick

-----------------------------------------------------------------------------
(* LLMClient: extractTexts and translateTexts *)

CallKinds == {"extraction", "translation"}
Prompts == {"prompt1", "prompt2"}

\* What the provider may answer to an extraction prompt
ExtractionResponses ==
    [wrap : Wraps,
     payload : {InvalidJSON, MissingField,
                Extraction(<<<<"__P1__", TextTiJiao>>>>,
                           <<"call", "('", "__P1__", "')">>)}]

\* parseExtractionResponse that looks for extractedTexts only
parseExtractionResponseOneField(response) ==
    LET parsed == ParsedJSON(response)
    IN  IF parsed = InvalidJSON \/ "extractedTexts" \notin DOMAIN parsed
        THEN [ok |-> FALSE]
        ELSE [ok |-> TRUE,
              result |-> [f \in DOMAIN parsed
                                \cap {"extractedTexts", "transformedCode"} |->
                            parsed[f]]]

\* parseExtractionResponse: the extraction result, or a parse error.  An
\* empty transformedCode is falsy, like one that is missing.
parseExtractionResponse(response) ==
    LET parsed == ParsedJSON(response)
    IN  IF \/ parsed = InvalidJSON
           \/ "extractedTexts" \notin DOMAIN parsed
           \/ "transformedCode" \notin DOMAIN parsed
           \/ Len(parsed.transformedCode) = 0
        THEN [ok |-> FALSE]
        ELSE [ok |-> TRUE,
              result |-> Extraction(parsed.extractedTexts,
                                    parsed.transformedCode)]

ClientResponses(kind) ==
    IF kind = "extraction" THEN ExtractionResponses
    ELSE Responses(TextsOfSize(1), {1})

ClientParse(kind, response) ==
    IF kind = "extraction" THEN parseExtractionResponse(response)
    ELSE LET parsed == parseTranslationResponse(response)
         IN  IF parsed.ok
             THEN [ok |-> TRUE,
                   result |-> [translations |-> parsed.translations]]
             ELSE [ok |-> FALSE]

ClientInit ==
    /\ clientPc = "idle"
    /\ clientCall = Nothing
    /\ clientLog = <<>>

\* How a call ended, for the history: what it returned, or the error it
\* raised
Ended(call, outcome, result) ==
    [kind |-> call.kind, prompt |-> call.prompt,
     invocations |-> call.invocations, answeredAt |-> call.answeredAt,
     outcome |-> outcome, result |-> result]

\* extractTexts(prompt) or translateTexts(prompt) is called: invokeWithRetry
\* up to its first llm.invoke
ClientCalled(kind, prompt) ==
    /\ clientPc = "idle"
    /\ Len(clientLog) < MaxClientCalls
    /\ clientPc' = "invoke"
    /\ clientCall' = [kind |-> kind, prompt |-> prompt, attempt |-> 0,
                      invocations |-> 1, answeredAt |-> <<>>]
    /\ UNCHANGED <<notClient, clientLog>>

\* llm.invoke answers, with the parse inside the retry loop: a response
\* that fails to parse is retried like a provider error
ClientProviderAnswersRetrying(response) ==
    /\ clientPc = "invoke"
    /\ LET parsed == ClientParse(clientCall.kind, response)
           answered == [clientCall EXCEPT
                          !.answeredAt = Append(@, clientCall.invocations)]
       IN  IF ~parsed.ok /\ mayRetry(clientCall.attempt, llmConfig.retryCount)
           THEN /\ clientPc' = "sleep"
                /\ clientCall' = answered
                /\ UNCHANGED clientLog
           ELSE /\ clientLog' = Append(clientLog,
                      IF parsed.ok
                      THEN Ended(answered, "returned", parsed.result)
                      ELSE Ended(answered, "raised",
                                 [error |-> "parse error"]))
                /\ clientPc' = "idle"
                /\ clientCall' = Nothing
    /\ UNCHANGED notClient

\* llm.invoke answers: invokeWithRetry returns the response; it is parsed
\* and the result returned, or the parse error wrapped and thrown
ClientProviderAnswers(response) ==
    /\ clientPc = "invoke"
    /\ LET parsed == ClientParse(clientCall.kind, response)
           answered == [clientCall EXCEPT
                          !.answeredAt = Append(@, clientCall.invocations)]
       IN  clientLog' = Append(clientLog,
               IF parsed.ok THEN Ended(answered, "returned", parsed.result)
               ELSE Ended(answered, "raised",
                                 [error |-> "parse error"]))
    /\ clientPc' = "idle"
    /\ clientCall' = Nothing
    /\ UNCHANGED notClient

\* llm.invoke throws: the sleep before the next attempt, or the throw after
\* the last one
ClientProviderFails(error) ==
    /\ clientPc = "invoke"
    /\ IF mayRetry(clientCall.attempt, llmConfig.retryCount)
       THEN /\ clientPc' = "sleep"
            /\ UNCHANGED <<clientCall, clientLog>>
       ELSE /\ clientPc' = "idle"
            /\ clientCall' = Nothing
            /\ clientLog' = Append(clientLog,
                                   Ended(clientCall, "raised",
                                         [error |-> error]))
    /\ UNCHANGED notClient

\* The backoff sleep ends: attempt++ and the next llm.invoke
ClientSleepEnds ==
    /\ clientPc = "sleep"
    /\ clientPc' = "invoke"
    /\ clientCall' = [clientCall EXCEPT !.attempt = @ + 1,
                                        !.invocations = @ + 1]
    /\ UNCHANGED <<notClient, clientLog>>

\* What the provider may answer to the call being served
PendingResponses ==
    IF clientPc = "invoke" THEN ClientResponses(clientCall.kind) ELSE {}

ClientNext ==
    \/ \E kind \in CallKinds : \E prompt \in Prompts :
          ClientCalled(kind, prompt)
    \/ \E response \in PendingResponses : ClientProviderAnswers(response)
    \/ \E error \in ProviderErrors : ClientProviderFails(error)
    \/ ClientSleepEnds

-----------------------------------------------------------------------------
(* parseExtractionResponse and parseTranslationResponse, called on their own *)

ExtractionPayloads ==
    LET texts == <<<<"__P1__", TextTiJiao>>>>
        code == <<"call", "('", "__P1__", "')">>
    IN  {InvalidJSON, JSONNull, MissingField,
         [extractedTexts |-> texts],
         [transformedCode |-> code],
         [extractedTexts |-> texts, transformedCode |-> <<>>],
         Extraction(texts, code),
         [extractedTexts |-> texts, transformedCode |-> code,
          note |-> "done"]}

TranslationPayloads ==
    {InvalidJSON, JSONNull, MissingField,
     [translated |-> [k \in {1} |-> Translated(1)]],
     [translations |-> EmptyMap],
     [translations |-> [k \in {1} |-> Translated(1)]],
     [translations |-> [k \in {1} |-> Translated(1)], note |-> "done"]}

ParseInputs ==
    [kind : {"extraction"}, wrap : ParseWraps, payload : ExtractionPayloads]
        \cup [kind : {"translation"}, wrap : ParseWraps,
              payload : TranslationPayloads]

ParseInit ==
    /\ pureArgs \in ParseInputs
    /\ pureResult = Nothing

\* parseExtractionResponse(response) or parseTranslationResponse(response)
ParseResponse ==
    /\ pureResult = Nothing
    /\ pureResult' = [parsed |-> ClientParse(pureArgs.kind,
                                             [wrap |-> pureArgs.wrap,
                                              payload |-> pureArgs.payload])]
    /\ UNCHANGED <<pureArgs, notPure>>

ParseNext == ParseResponse

-----------------------------------------------------------------------------
(* generateKey on a new KeyGenerator, for every configuration *)

\* Separators the configuration validation accepts: any non-empty string
Separators == {"_", ".", "/"}

KeyGenerationConfigs ==
    [reuseExistingKey : BOOLEAN, keyPrefix : KeyPrefixes,
     separator : Separators, pinyinOptions : PinyinOptions]

NewKeyInit ==
    /\ pureArgs \in [config : KeyGenerationConfigs,
                      text : Texts \cup OtherTexts]
    /\ pureResult = Nothing

\* One generateKey(text) and what it computed on the way
KeyCall(calls, keys, memo) ==
    LET cfg == pureArgs.config
        text == pureArgs.text
        r == generateKey(cfg, keys, memo, text, now)
    IN  [calls |-> calls,
         pinyin |-> convertToPinyin(cfg, text),
         limited |-> limitLength(cfg, convertToPinyin(cfg, text), text),
         key |-> r.key,
         existingKeys |-> r.existingKeys,
         textToKeyMap |-> r.textToKeyMap]

\* The first generateKey(text) of a new KeyGenerator(config)
NewKeyFirstCall ==
    /\ pureResult = Nothing
    /\ pureResult' = KeyCall(1, {}, EmptyMap)
    /\ UNCHANGED <<pureArgs, notPure>>

\* generateKey(text) once more: the memo answers, or the key is taken
NewKeySecondCall ==
    /\ pureResult # Nothing
    /\ pureResult.calls = 1
    /\ pureResult' = KeyCall(2, pureResult.existingKeys,
                             pureResult.textToKeyMap)
    /\ UNCHANGED <<pureArgs, notPure>>

NewKeyNext == NewKeyFirstCall \/ NewKeySecondCall

-----------------------------------------------------------------------------
(* KeyGenerator.replaceTempKeys, called on its own *)

MaxCodeLen == 4

\* The letters of the transformed code an extraction can hand over
CodeLetters == {"__I18N_1", "0", "__", "x", " "}

Codes == UNION { [1..n -> CodeLetters] : n \in 0..MaxCodeLen }

\* The placeholder keys of the extraction prompts
Placeholders == {"__I18N_1__", "__I18N_10__"}

\* The keys generateKey made of the extracted texts; "__I18N_1__" is the
\* key of a text that reads __I18N_1__
FinalKeys == {"yi_yi", "__I18N_1__"}

\* Object.entries(keyMapping): every placeholder at most once, in insertion
\* order
KeyMappings ==
    {<<>>}
        \cup { <<<<tempKey, realKey>>>> :
                  tempKey \in Placeholders, realKey \in FinalKeys }
        \cup { m \in [1..2 -> Placeholders \X FinalKeys] : m[1][1] # m[2][1] }

ReplaceInit ==
    /\ pureArgs \in [code : Codes, keyMapping : KeyMappings]
    /\ pureResult = Nothing

ReplaceTempKeys ==
    /\ pureResult = Nothing
    /\ pureResult' = [value |-> replaceTempKeys(pureArgs.code,
                                                pureArgs.keyMapping)]
    /\ UNCHANGED <<pureArgs, notPure>>

ReplaceNext == ReplaceTempKeys

-----------------------------------------------------------------------------
(* Idle components and the specifications *)

KeyGenIdle ==
    /\ kgConfig = [reuseExistingKey |-> TRUE, keyPrefix |-> "",
                   separator |-> separator,
                   pinyinOptions |-> DefaultPinyinOptions]
    /\ existingKeys = {}
    /\ textToKeyMap = EmptyMap
    /\ kgLast = Nothing
    /\ kgFirst = EmptyMap
    /\ kgCalls = 0

CacheIdle ==
    /\ cacheConfig = [enabled |-> FALSE, persistent |-> FALSE,
                      maxEntries |-> 1, defaultTTL |-> defaultTTL]
    /\ memoryCache = <<>>
    /\ disk = NoFile
    /\ loadPc = "done"
    /\ saveEnsure = 0
    /\ saveWrites = {}
    /\ cacheLast = [op |-> "new"]
    /\ cacheOps = 0
    /\ diskLog = Nothing

LLMIdle ==
    /\ llmConfig = [retryCount |-> 0, batchSize |-> 1]
    /\ llmTexts = <<>>
    /\ llmPc = "done"
    /\ batchStart = 0
    /\ translations = EmptyMap
    /\ attempt = 0
    /\ lastError = Nothing
    /\ retryLog = <<>>
    /\ sleepLog = <<>>
    /\ retryLast = Nothing
    /\ batchLog = <<>>

ProcIdle ==
    /\ procConfig = [concurrency |-> 1, skipTranslate |-> "unread"]
    /\ procPc = "returned"
    /\ procI = 0
    /\ units = <<>>
    /\ results = <<>>
    /\ allExtractedTexts = EmptyMap
    /\ diskFiles = EmptyMap
    /\ localeFile = Nothing
    /\ stats = Nothing

ClientIdle ==
    /\ clientPc = "idle"
    /\ clientCall = Nothing
    /\ clientLog = <<>>

PureIdle ==
    /\ pureArgs = Nothing
    /\ pureResult = Nothing

vars == <<now, kgVars, cacheVars, llmVars, procVars, clientVars, pureVars>>

InitKeyGen ==
    /\ now = 0 /\ KeyGenInit /\ CacheIdle /\ LLMIdle /\ ProcIdle
    /\ ClientIdle /\ PureIdle

SpecKeyGen == InitKeyGen /\ [][KeyGenNext]_vars

InitCache ==
    /\ now = 0 /\ CacheInit /\ KeyGenIdle /\ LLMIdle /\ ProcIdle
    /\ ClientIdle /\ PureIdle

InitLLM ==
    /\ now = 0 /\ LLMInit /\ KeyGenIdle /\ CacheIdle /\ ProcIdle
    /\ ClientIdle /\ PureIdle

SpecLLM == InitLLM /\ [][LLMNext]_vars

SpecCache == InitCache /\ [][CacheNext]_vars

InitDisk ==
    /\ now = 0 /\ DiskInit /\ KeyGenIdle /\ LLMIdle /\ ProcIdle
    /\ ClientIdle /\ PureIdle

SpecDisk == InitDisk /\ [][DiskNext]_vars

InitProc ==
    /\ now = 0
    /\ ProcInit
    /\ kgLast = Nothing /\ kgFirst = EmptyMap /\ kgCalls = 0
    /\ CacheIdle
    /\ LLMIdle
    /\ ClientIdle
    /\ PureIdle

SpecProc == InitProc /\ [][ProcNext]_vars

\* The extraction every unit of a run followed to its end receives: which
\* texts a response holds has no part in where processAll goes next
ExtractionOfRun ==
    { Extraction(<<<<"__P1__", TextTiJiao>>>>,
                 <<"call", "('", "__P1__", "')">>) }

\* The collaborator that the processFile call of unit u awaits returns or
\* raises
UnitReturns(u) ==
    \/ ReadFails(u)
    \/ \E error \in {"provider", "parse"} : ExtractFails(u, error)
    \/ TransformFails(u)
    \/ WriteFails(u)
    \/ ReadReturns(u)
    \/ \E verdict \in Verdicts : TransformReturns(u, verdict)
    \/ WriteReturns(u)
    \/ \E extraction \in ExtractionOfRun : ExtractReturns(u, extraction)

\* The scan, the writer of the locale files and processTranslation return
\* or raise
RunReturns ==
    \/ \E n \in 0..MaxFiles : ScanReturns(n)
    \/ ScanFails
    \/ \E ok \in BOOLEAN : \E skipTranslate \in {"yes", "no"} :
          LocalesReturn(ok, skipTranslate)
    \/ \E count \in TranslatedCounts(allExtractedTexts) :
          TranslationReturns(count)

InitProcFair == InitProc /\ kgConfig.reuseExistingKey

ProcFairNext ==
    \/ ProcessAll
    \/ RunReturns
    \/ \E u \in 1..MaxFiles : UnitReturns(u)
    \/ SettleBatch

\* processAll with every awaited call answered in the end and every
\* settled promise resumed by the event loop
SpecProcFair ==
    /\ InitProcFair
    /\ [][ProcFairNext]_vars
    /\ \A u \in 1..MaxFiles : WF_vars(UnitReturns(u))
    /\ WF_vars(RunReturns)
    /\ WF_vars(SettleBatch)

InitClient ==
    /\ now = 0
    /\ ClientInit
    /\ llmConfig \in [retryCount : 0..MaxRetries, batchSize : {1}]
    /\ llmTexts = <<>> /\ llmPc = "done" /\ batchStart = 0
    /\ translations = EmptyMap /\ attempt = 0 /\ lastError = Nothing
    /\ retryLog = <<>> /\ sleepLog = <<>> /\ retryLast = Nothing
    /\ batchLog = <<>>
    /\ KeyGenIdle
    /\ CacheIdle
    /\ ProcIdle
    /\ PureIdle

SpecClient == InitClient /\ [][ClientNext]_vars

\* extractTexts and translateTexts with their own steps scheduled: the timer
\* of sleep fires (setTimeout). Nothing obliges the provider to answer or
\* to fail, and the client arms no timer of its own around llm.invoke
SpecClientFair == SpecClient /\ WF_vars(ClientSleepEnds)

InitNewKey ==
    /\ now = 0 /\ NewKeyInit /\ KeyGenIdle /\ CacheIdle /\ LLMIdle
    /\ ProcIdle /\ ClientIdle

SpecNewKey == InitNewKey /\ [][NewKeyNext]_vars

InitParse ==
    /\ now = 0 /\ ParseInit /\ KeyGenIdle /\ CacheIdle /\ LLMIdle
    /\ ProcIdle /\ ClientIdle

SpecParse == InitParse /\ [][ParseNext]_vars

InitReplace ==
    /\ now = 0 /\ ReplaceInit /\ KeyGenIdle /\ CacheIdle /\ LLMIdle
    /\ ProcIdle /\ ClientIdle

SpecReplace == InitReplace /\ [][ReplaceNext]_vars

-----------------------------------------------------------------------------
(* Claims about the KeyGenerator *)

\* C4: with reuseExistingKey = true and no intervening clear, every
\* generateKey call with a text that was passed before returns exactly the
\* key the first call for that text returned.
C4_ReuseReturnsFirstKey ==
    (kgConfig.reuseExistingKey /\ kgLast # Nothing /\ kgLast.seenBefore)
        => kgLast.key = kgFirst[kgLast.text]

C4_Witness ==
    /\ kgConfig.reuseExistingKey
    /\ kgLast # Nothing
    /\ kgLast.seenBefore
    /\ kgLast.key = kgFirst[kgLast.text]
    /\ kgLast.key \in kgLast.before

\* C5: with reuseExistingKey = false, every key generateKey returns differs
\* from every key returned or loaded before, also for repeated calls with
\* the same text and however little time passes between them.
C5_FreshKeyEveryCall ==
    (~kgConfig.reuseExistingKey /\ kgLast # Nothing)
        => kgLast.key \notin kgLast.before

\* C6: with reuseExistingKey = true the text-to-key memo is injective: two
\* different texts never have the same key, also when their romanized forms
\* coincide.
C6_MemoInjective ==
    kgConfig.reuseExistingKey
        => \A t1, t2 \in DOMAIN textToKeyMap :
              t1 # t2 => textToKeyMap[t1] # textToKeyMap[t2]

-----------------------------------------------------------------------------
(* Claims about the CacheManager *)

\* C9: get(key) never returns the data of an entry whose expiresAt is
\* earlier than the current time, and has(key) is false for such an entry,
\* whatever set, get, has, delete, clear, importCache and snapshot loading
\* came before.
C9_ExpiredEntryNeverReturned ==
    (/\ cacheLast.op \in {"get", "has"}
     /\ cacheLast.found
     /\ cacheLast.entry.expiresAt < now)
        => /\ cacheLast.op = "get" => cacheLast.result = "null"
           /\ cacheLast.op = "has" => cacheLast.result = FALSE

C9_Witness ==
    /\ cacheLast.op = "get"
    /\ cacheLast.found
    /\ cacheLast.entry.expiresAt < now
    /\ cacheLast.result = "null"

\* C10: in the state immediately after a set on an enabled cache, the number
\* of entries held in memory is at most maxEntries.
C10_SizeBoundAfterSet ==
    (cacheLast.op = "set" /\ cacheLast.enabled)
        => Len(memoryCache) <= cacheConfig.maxEntries

C10_Witness ==
    /\ cacheLast.op = "set"
    /\ cacheLast.enabled
    /\ cacheLast.evicted
    /\ Len(memoryCache) = cacheConfig.maxEntries

Stamps(entries) ==
    { <<entries[i].key, entries[i].timestamp>> : i \in 1..Len(entries) }

\* C11: a set on an enabled cache removes exactly the surplus over
\* maxEntries (nothing when there is none), and no entry it removes was
\* created later than an entry that remains
C11_EvictsOldest ==
    [][(cacheLast'.op = "set" /\ cacheLast'.enabled) =>
          LET key == cacheLast'.key
              before == { s \in Stamps(memoryCache) : s[1] # key }
                            \cup {<<key, now>>}
              after == Stamps(memoryCache')
              removed == before \ after
              surplus == Cardinality(before) - cacheConfig.maxEntries
          IN  /\ after \subseteq before
              /\ Cardinality(removed) = IF surplus > 0 THEN surplus ELSE 0
              /\ \A r \in removed : \A s \in after : r[2] <= s[2]]_vars

C11_Witness ==
    /\ cacheLast.op = "set"
    /\ cacheLast.enabled
    /\ cacheLast.removed = 2
    /\ cacheLast.key \in KeysOf(memoryCache)

\* C12: on an enabled cache with maxEntries >= 1, get(key) called right
\* after set(key, data, ttl) with ttl > 0, at the same clock value and with
\* nothing in between, returns data, whatever the cache held before
C12_GetAfterSet ==
    (/\ cacheLast.op = "set"
     /\ cacheLast.enabled
     /\ cacheLast.ttl > 0
     /\ cacheConfig.maxEntries >= 1)
        => /\ Lookup(cacheLast.key).live
           /\ Lookup(cacheLast.key).entry.data = cacheLast.data

\* C13: a call of extractTexts or translateTexts whose prompt an earlier
\* call of the same kind was answered for (nothing expired or evicted since)
\* returns that result without invoking the provider
C13_CachedCallSkipsProvider ==
    \A j \in 1..Len(clientLog) : \A i \in 1..(j - 1) :
        (/\ clientLog[i].kind = clientLog[j].kind
         /\ clientLog[i].prompt = clientLog[j].prompt
         /\ clientLog[i].outcome = "returned")
            => /\ clientLog[j].invocations = 0
               /\ clientLog[j].outcome = "returned"
               /\ clientLog[j].result = clientLog[i].result

-----------------------------------------------------------------------------
(* Claims about the LLMClient *)

\* The translations the successful batches alone contribute, in batch order
RECURSIVE Contributed(_)
Contributed(log) ==
    IF Len(log) = 0 THEN EmptyMap
    ELSE LET before == Contributed(SubSeq(log, 1, Len(log) - 1))
             last == log[Len(log)]
         IN  IF last.outcome = "translated"
             THEN ObjectAssign(before, last.response)
             ELSE before

KeysOfBatches(outcomes) ==
    UNION { batchLog[b].keys : b \in { c \in 1..Len(batchLog) :
                                         batchLog[c].outcome \in outcomes } }

FailedBatchKeys == KeysOfBatches({"call error", "parse error"})

UntranslatedBatchKeys ==
    KeysOfBatches({"call error", "parse error", "template error"})

\* C2: when batchTranslateTexts returns, every key of a batch whose call
\* failed (after retries) or whose response failed to parse is mapped to its
\* source text, and what the other batches contributed is what they would
\* have contributed without the failure.
C2_FailedBatchFallsBackToSource ==
    llmPc = "done" =>
        /\ \A k \in FailedBatchKeys :
              /\ k \in DOMAIN translations
              /\ translations[k] = TextOfKey(llmTexts, k)
        /\ \A k \in (DOMAIN translations \cup DOMAIN Contributed(batchLog))
                        \ UntranslatedBatchKeys :
              /\ k \in DOMAIN translations
              /\ k \in DOMAIN Contributed(batchLog)
              /\ translations[k] = Contributed(batchLog)[k]

\* C3: an invokeWithRetry whose every provider call failed has called the
\* provider exactly maxRetries + 1 times and raised the error of the last
\* attempt.
C3_RetryBound ==
    (retryLast # Nothing /\ retryLast.failures = retryLast.calls)
        => /\ retryLast.outcome = "raised"
           /\ retryLast.calls = retryLast.maxRetries + 1
           /\ Len(retryLast.log) = retryLast.maxRetries + 1
           /\ retryLast.error = retryLast.log[Len(retryLast.log)]

C3_Witness ==
    /\ retryLast # Nothing
    /\ retryLast.outcome = "raised"
    /\ retryLast.maxRetries >= 2
    /\ retryLast.calls = retryLast.maxRetries + 1

\* A call that ended raising the error of a response that failed to parse
ParseFailed(ended) ==
    ended.outcome = "raised" /\ ended.result = [error |-> "parse error"]

\* C21: a call of extractTexts or translateTexts that received a response
\* which failed to parse has raised the parse error on that response: the
\* provider answered once in the call, and that answer was its last
\* invocation, whatever retryCount is
C21_ParseFailureNotRetried ==
    \A c \in 1..Len(clientLog) :
        /\ clientLog[c].answeredAt \in {<<>>, <<clientLog[c].invocations>>}
        /\ ParseFailed(clientLog[c])
              => clientLog[c].answeredAt = <<clientLog[c].invocations>>

\* With a retry left, a call raised a parse error on its first response
C21_Witness ==
    \E c \in 1..Len(clientLog) :
        /\ ParseFailed(clientLog[c])
        /\ clientLog[c].invocations = 1
        /\ llmConfig.retryCount >= 1

\* ceil(n / b)
CeilDiv(n, b) == (n + b - 1) \div b

\* C23: when batchTranslateTexts returns, it has made ceil(n / batchSize)
\* batch calls; batch j held the keys at input positions (j-1)*batchSize+1
\* to j*batchSize (to n for the last), so the batches follow the input
\* order, every key is in exactly one of them and all but the last are full
C23_BatchesPartitionInput ==
    llmPc = "done" =>
        LET n == Len(llmTexts)
            b == llmConfig.batchSize
        IN  /\ Len(batchLog) = CeilDiv(n, b)
            /\ \A j \in 1..Len(batchLog) :
                  batchLog[j].keys
                      = { llmTexts[p].key :
                            p \in ((j - 1) * b + 1)..Min(j * b, n) }
            /\ \A p \in 1..n :
                  Cardinality({ j \in 1..Len(batchLog) :
                                  llmTexts[p].key \in batchLog[j].keys }) = 1
            /\ \A j \in 1..(Len(batchLog) - 1) :
                  Cardinality(batchLog[j].keys) = b

\* Three keys went out in a full batch of two and a last batch of one
C23_Witness ==
    /\ llmPc = "done"
    /\ Len(llmTexts) = 3
    /\ llmConfig.batchSize = 2
    /\ Len(batchLog) = 2

\* The fields a result of the kind must carry
RequiredFields(kind) ==
    IF kind = "extraction" THEN {"extractedTexts", "transformedCode"}
    ELSE {"translations"}

\* C22: when parseExtractionResponse or parseTranslationResponse returns a
\* result, the payload was JSON that carried every required field, and the
\* result carries every required field with the payload's value; a payload
\* that is no JSON or lacks a required field makes them raise
C22_ResultOnlyFromCompletePayload ==
    (pureResult # Nothing /\ "parsed" \in DOMAIN pureResult) =>
        LET required == RequiredFields(pureArgs.kind)
            parsed == pureResult.parsed
            payload == pureArgs.payload
        IN  /\ parsed.ok =>
                  /\ payload # InvalidJSON
                  /\ required \subseteq DOMAIN payload
                  /\ required \subseteq DOMAIN parsed.result
                  /\ \A f \in required : parsed.result[f] = payload[f]
            /\ (payload = InvalidJSON \/ ~(required \subseteq DOMAIN payload))
                  => ~parsed.ok

\* parseExtractionResponse has returned a result for a payload in a json
\* fence with text around it
C22_Witness ==
    /\ pureResult # Nothing
    /\ "parsed" \in DOMAIN pureResult
    /\ pureResult.parsed.ok
    /\ pureArgs.wrap = "json fence in text"
    /\ pureArgs.kind = "extraction"

-----------------------------------------------------------------------------
(* Claims about the FileProcessor *)

FailedFiles == { stats.failedFiles[j] : j \in 1..Len(stats.failedFiles) }

\* C1: processAll never raises once the scan has succeeded, whatever units
\* fail; when it returns, every target file has exactly one result,
\* filesProcessed + |failedFiles| is the number of target files, and every
\* unit that did not reach Written is in failedFiles
C1_PartialSuccess ==
    /\ procPc = "thrown" => units = <<>> /\ results = <<>>
    /\ (procPc = "returned" /\ stats # Nothing) =>
          /\ \A u \in 1..Len(units) :
                Cardinality({ j \in 1..Len(results) :
                                results[j].filePath = u }) = 1
          /\ Len(results) = Len(units)
          /\ stats.filesProcessed + Len(stats.failedFiles) = Len(units)
          /\ \A u \in 1..Len(units) :
                units[u].pc # "Written" => u \in FailedFiles

C1_Witness ==
    /\ procPc = "returned" /\ stats # Nothing
    /\ \E u \in 1..Len(units) : units[u].pc = "Failed" /\ u \in FailedFiles
    /\ \E u \in 1..Len(units) : units[u].pc = "Written"
    /\ stats.filesProcessed = 1

\* C7: a key of the aggregate store keeps its text for the rest of the run:
\* no step changes the text of a key already in allExtractedTexts, a
\* conflicting later mapping is dropped
C7_FirstWriterWins ==
    [][\A k \in DOMAIN allExtractedTexts :
          /\ k \in DOMAIN allExtractedTexts'
          /\ allExtractedTexts'[k] = allExtractedTexts[k]]_vars

\* The key written where the code had token `pos` of the extraction
WrittenKey(u, pos) == diskFiles[u][pos]

\* C8: when processAll has returned, for every Written unit and every
\* placeholder it extracted, the key written in place of the placeholder is
\* a key of allExtractedTexts and maps there to the placeholder's text
C8_WrittenKeysResolve ==
    (procPc = "returned" /\ stats # Nothing) =>
        \A u \in 1..Len(units) :
            units[u].pc = "Written" =>
                LET e == units[u].extraction
                IN  \A i \in 1..Len(e.extractedTexts) :
                      \A pos \in 1..Len(e.transformedCode) :
                        e.transformedCode[pos] = e.extractedTexts[i][1] =>
                          /\ WrittenKey(u, pos) \in DOMAIN allExtractedTexts
                          /\ allExtractedTexts[WrittenKey(u, pos)]
                                = e.extractedTexts[i][2]


\* The processFile calls started and not yet settled
InFlight ==
    { u \in 1..Len(units) :
        units[u].pc \in {"reading", "extracting", "transforming", "writing"} }

\* C14: at every moment of processAll, at most `concurrency` units are in
\* flight (started and not yet Written or Failed)
C14_ConcurrencyBound == Cardinality(InFlight) <= procConfig.concurrency

C14_Witness ==
    /\ procConfig.concurrency >= 1
    /\ Cardinality(InFlight) = procConfig.concurrency
    /\ \E u \in 1..Len(units) : units[u].pc = "queued"
    /\ \E u \in InFlight : units[u].pc = "writing"


\* The units whose key mapping has been generated and is still in use
KeyedUnits ==
    { u \in 1..Len(units) :
        units[u].pc \in {"transforming", "writing", "Written"} }

\* The final key unit u got for entry i of its extraction
KeyFor(u, i) ==
    RealKeyOf(units[u].keyMapping, units[u].extraction.extractedTexts[i][1])

TextFor(u, i) == units[u].extraction.extractedTexts[i][2]

EntriesOf(u) == 1..Len(units[u].extraction.extractedTexts)

\* C15: with reuseExistingKey = true, units that extract the same text get
\* the same final key for it, whatever the order of their steps
C15_SameTextSameKey ==
    kgConfig.reuseExistingKey =>
        \A u \in KeyedUnits : \A v \in KeyedUnits :
            \A i \in EntriesOf(u) : \A j \in EntriesOf(v) :
                TextFor(u, i) = TextFor(v, j) => KeyFor(u, i) = KeyFor(v, j)

C15_Witness ==
    /\ kgConfig.reuseExistingKey
    /\ \E u \in InFlight : \E v \in InFlight \ {u} :
          /\ u \in KeyedUnits /\ v \in KeyedUnits
          /\ \E i \in EntriesOf(u) : \E j \in EntriesOf(v) :
                TextFor(u, i) = TextFor(v, j) /\ KeyFor(u, i) = KeyFor(v, j)


WrittenUnits == { u \in 1..Len(units) : units[u].pc = "Written" }

\* The orders in which the units of S can merge their pairs
RECURSIVE MergeOrders(_)
MergeOrders(S) ==
    IF S = {} THEN {<<>>}
    ELSE UNION { { <<u>> \o rest : rest \in MergeOrders(S \ {u}) } : u \in S }

\* The store after the units of `order` merged their pairs in that order
RECURSIVE MergedInOrder(_)
MergedInOrder(order) ==
    IF Len(order) = 0 THEN EmptyMap
    ELSE collectTexts(MergedInOrder(SubSeq(order, 1, Len(order) - 1)),
                      units[order[Len(order)]].extraction.extractedTexts,
                      units[order[Len(order)]].keyMapping)

\* C16: merging is commutative: when processAll has returned, the aggregate
\* store is what merging the pairs of the Written units gives in any order
C16_MergeCommutes ==
    (procPc = "returned" /\ stats # Nothing) =>
        \A order \in MergeOrders(WrittenUnits) :
            MergedInOrder(order) = allExtractedTexts


\* The units the validator gave a negative verdict
Rejected == { u \in 1..Len(units) : units[u].verdict # Nothing }

\* C17: a unit whose transformed code the validator rejects is Failed with
\* the validator's errors in its error, and its file is never written
C17_RejectedNeverWritten ==
    \A u \in Rejected :
        /\ units[u].pc = "Failed"
        /\ \A i \in 1..Len(units[u].verdict.errors) :
              \E j \in 1..Len(units[u].error.diagnostics) :
                units[u].error.diagnostics[j] = units[u].verdict.errors[i]
        /\ u \notin DOMAIN diskFiles

C17_Witness ==
    /\ procPc = "returned"
    /\ \E u \in Rejected : units[u].error.step = "validation"
    /\ \E u \in WrittenUnits : u \in DOMAIN diskFiles

-----------------------------------------------------------------------------
(* Claims about replaceTempKeys *)

\* The length of the run of word characters that starts the code
WordRun(code) ==
    CHOOSE n \in 1..Len(code) :
        /\ \A j \in 1..n : IsWord(code[j])
        /\ n = Len(code) \/ ~IsWord(code[n + 1])

\* The tokens of the code, in order: the maximal runs of word characters,
\* and each other character on its own
RECURSIVE Tokens(_)
Tokens(code) ==
    IF Len(code) = 0 THEN <<>>
    ELSE LET n == IF IsWord(code[1]) THEN WordRun(code) ELSE 1
         IN  <<SubSeq(code, 1, n)>> \o Tokens(SubSeq(code, n + 1, Len(code)))

\* A token after the substitution of whole tokens: the final key of the
\* placeholder it is, or the token itself
Substituted(token, keyMapping) ==
    IF \E i \in 1..Len(keyMapping) : Chunks(keyMapping[i][1]) = token
    THEN Chunks(keyMapping[CHOOSE i \in 1..Len(keyMapping) :
                               Chunks(keyMapping[i][1]) = token][2])
    ELSE token

RECURSIVE Concat(_)
Concat(tokens) ==
    IF Len(tokens) = 0 THEN <<>> ELSE Head(tokens) \o Concat(Tail(tokens))

WholeTokenSubstitution(code, keyMapping) ==
    Concat([t \in 1..Len(Tokens(code)) |->
                Substituted(Tokens(code)[t], keyMapping)])

\* Whether a placeholder of the mapping is a whole token of the code
PlaceholderRemains(code, keyMapping) ==
    \E t \in 1..Len(Tokens(code)) : \E i \in 1..Len(keyMapping) :
        Tokens(code)[t] = Chunks(keyMapping[i][1])

\* C18: what replaceTempKeys returns is the code with every token that is a
\* placeholder of the mapping replaced by that placeholder's final key and
\* every other token (a longer token that only contains a placeholder
\* included) unchanged, and no placeholder of the mapping is a whole token
\* of what it returns
C18_WholeTokenReplacement ==
    pureResult # Nothing =>
        /\ pureResult.value
              = WholeTokenSubstitution(pureArgs.code, pureArgs.keyMapping)
        /\ ~PlaceholderRemains(pureResult.value, pureArgs.keyMapping)

-----------------------------------------------------------------------------
(* Claims about the keys generateKey returns *)

\* C19: whatever the text and the configuration, the key generateKey
\* returned satisfies validateKey: it is not empty, starts with keyPrefix
\* when one is configured, and holds only letters, digits, '_', '-', '.'
C19_ReturnedKeyIsValid ==
    (pureResult # Nothing /\ "key" \in DOMAIN pureResult)
        => validateKey(pureArgs.config, pureResult.key)

\* The texts whose romanized form is too long and starts like that of the
\* call's text, and whose hash differs from the hash of the call's text
LongLookalikes ==
    LET cfg == pureArgs.config
    IN  { other \in Texts \cup OtherTexts :
            /\ other # pureArgs.text
            /\ Len(convertToPinyin(cfg, other)) > maxChineseLength
            /\ SubSeq(convertToPinyin(cfg, other), 1, maxChineseLength)
                  = SubSeq(pureResult.pinyin, 1, maxChineseLength)
            /\ generateHash(TextCodes(other), hashLength)
                  # generateHash(TextCodes(pureArgs.text), hashLength) }

-----------------------------------------------------------------------------
(* Claims about the translation phase of processAll *)

\* processTranslation was run and processAll has returned or raised
TranslationRan ==
    /\ procPc \in {"returned", "thrown"}
    /\ procConfig.skipTranslate = "no"
    /\ DOMAIN allExtractedTexts # {}

\* C24: whatever happens in the translation phase, processAll returns its
\* statistics: it raises only when the scan failed, before any option was
\* read, and when the translation phase was run, failedFiles holds the
\* units that did not reach Written and nothing else
C24_TranslationFailureNotFatal ==
    /\ procPc = "thrown" => procConfig.skipTranslate = "unread"
    /\ TranslationRan =>
          /\ procPc = "returned"
          /\ stats # Nothing
          /\ FailedFiles = { u \in 1..Len(units) : units[u].pc # "Written" }
          /\ stats.filesProcessed
                = Cardinality({ u \in 1..Len(units) : units[u].pc = "Written" })

\* processAll returned after a translation phase that failed, every unit
\* being Written
C24_Witness ==
    /\ TranslationRan
    /\ procPc = "returned"
    /\ stats.textsTranslated = 0
    /\ stats.failedFiles = <<>>
    /\ Len(units) >= 1

-----------------------------------------------------------------------------
(* Claims about the waits of invokeWithRetry *)

\* the failed attempts of the current invokeWithRetry
FailedAttempts == { i \in 1..Len(retryLog) : "error" \in DOMAIN retryLog[i] }

\* the current invokeWithRetry has raised its last error
RetriesExhausted ==
    /\ retryLast # Nothing
    /\ retryLast.outcome = "raised"
    /\ retryLast.log = retryLog

\* C25: the wait that follows failed attempt a (from 0) is 1000 * 2^a ms,
\* every failed attempt but the one invokeWithRetry raises after is followed
\* by one wait, and no wait follows that final failed attempt
C25_ExponentialBackoff ==
    /\ \A i \in 1..Len(sleepLog) :
          /\ sleepLog[i].after = i - 1
          /\ sleepLog[i].ms = 1000 * 2^(i - 1)
    /\ Len(sleepLog) = Cardinality(FailedAttempts)
                         - (IF RetriesExhausted THEN 1 ELSE 0)
    /\ RetriesExhausted => Len(sleepLog) = llmConfig.retryCount

\* invokeWithRetry raised after waiting 1000 ms and then 2000 ms
C25_Witness ==
    /\ RetriesExhausted
    /\ Len(sleepLog) = 2
    /\ sleepLog[2].ms = 2000

-----------------------------------------------------------------------------
(* Claims about the timeout of a provider invocation *)

\* C26: every llm.invoke that extractTexts or translateTexts awaits comes
\* to an end, by an answer, a failure or the configured timeout, whether or
\* not the provider ever answers
C26_InvocationBounded == (clientPc = "invoke") ~> (clientPc # "invoke")

-----------------------------------------------------------------------------
(* Claims about the snapshot file of the CacheManager *)

\* C27: a disk operation of loadFromDisk or saveToDisk that fails is
\* caught, so that nothing is raised or rejected unhandled, and the step in
\* which it fails leaves the entries in memory as they were
C27_DiskFailureContained ==
    [][ /\ diskLog'.unhandled = 0
        /\ diskLog'.failures > diskLog.failures
              => memoryCache' = memoryCache ]_vars

\* get returns the entry that was set although the load and the save
\* around it have failed
C27_Witness ==
    /\ diskLog.failures >= 2
    /\ PendingSaves = 0
    /\ loadPc = "done"
    /\ cacheLast.op = "get"
    /\ cacheLast.result # "null"

\* The entries of a map or a snapshot that have not expired
Live(entries) ==
    { entries[i] : i \in { j \in 1..Len(entries) :
                              ~isExpired(entries[j], now) } }

\* The last pending save has just completed, no disk operation has failed
\* and no call was made while loadFromDisk was running
SavesSettled ==
    /\ cacheConfig.persistent
    /\ diskLog.failures = 0
    /\ ~diskLog.early
    /\ cacheLast.op = "save"
    /\ PendingSaves = 0
    /\ loadPc = "done"

\* C28: when the last pending save has completed without a disk failure,
\* the snapshot file holds exactly the entries in memory that have not
\* expired
C28_SnapshotMatchesMemory ==
    SavesSettled => /\ disk.exists
                    /\ Live(disk.entries) = Live(memoryCache)

-----------------------------------------------------------------------------
(* Claims about the order of the phases of processAll *)

\* C29: processTranslation is entered only from the return of
\* writeLocalizationFiles, with every unit Written or Failed and its result
\* pushed, translation not skipped and the aggregate store non-empty; and
\* while it runs no unit, result or store entry changes
C29_TranslationAfterUnits ==
    [][ /\ procPc' = "translating" =>
              /\ procPc \in {"locales", "translating"}
              /\ \A u \in 1..Len(units') : Terminal(units'[u])
              /\ Len(results') = Len(units')
              /\ procConfig'.skipTranslate = "no"
              /\ DOMAIN allExtractedTexts' # {}
        /\ procPc = "translating" =>
              /\ units' = units
              /\ results' = results
              /\ allExtractedTexts' = allExtractedTexts
              /\ diskFiles' = diskFiles ]_vars

\* processTranslation runs after two units, one Written and one Failed
C29_Witness ==
    /\ procPc = "translating"
    /\ Len(units) = 2
    /\ \E u \in 1..Len(units) : units[u].pc = "Written"
    /\ \E u \in 1..Len(units) : units[u].pc = "Failed"

-----------------------------------------------------------------------------
(* Claims about the termination of processAll *)

\* processAll has returned its statistics with every unit Written or Failed
RunCompleted ==
    /\ procPc = "returned"
    /\ stats # Nothing
    /\ \A u \in 1..Len(units) : Terminal(units[u])

\* C30: with every awaited call answered in the end and concurrency >= 1,
\* once the scan has returned the units, every unit reaches Written or
\* Failed and processAll returns its statistics
C30_RunTerminates ==
    (procPc \in {"awaiting", "locales", "translating"}
        /\ procConfig.concurrency >= 1) ~> RunCompleted

\* processAll has returned after two units processed one at a time, one
\* of them Failed
C30_Witness ==
    /\ RunCompleted
    /\ procConfig.concurrency = 1
    /\ Len(units) = 2
    /\ \E u \in 1..Len(units) : units[u].pc = "Failed"

-----------------------------------------------------------------------------
(* Claims about the record batchTranslateTexts returns *)

InputKeys == { llmTexts[j].key : j \in 1..Len(llmTexts) }

\* C31: the record batchTranslateTexts returns has the keys of its input
\* and no others
C31_ResultKeysAreInputKeys ==
    llmPc = "done" => DOMAIN translations = InputKeys

-----------------------------------------------------------------------------
(* Claims about failed units and the aggregate store *)

\* The pairs the written units hold: each placeholder's real key with its text
WrittenPairs ==
    UNION { { <<RealKeyOf(units[u].keyMapping,
                          units[u].extraction.extractedTexts[j][1]),
                units[u].extraction.extractedTexts[j][2]>> :
              j \in 1..Len(units[u].extraction.extractedTexts) } :
            u \in WrittenUnits }

Perms(S) ==
    { s \in [1..Cardinality(S) -> S] :
        \A i, j \in 1..Cardinality(S) : i # j => s[i] # s[j] }

\* The key mappings the units of `order` get when they alone are extracted,
\* in that order, unit u at time at[u], on a fresh KeyGenerator
RECURSIVE ReplayExtract(_, _, _, _, _)
ReplayExtract(order, at, i, keys, memo) ==
    IF i > Cardinality(DOMAIN order) THEN EmptyMap
    ELSE LET u == order[i]
             r == generateKeyMapping(kgConfig, keys, memo,
                                     units[u].extraction.extractedTexts,
                                     at[u])
         IN  Put(ReplayExtract(order, at, i + 1, r.existingKeys,
                               r.textToKeyMap),
                 u, r.keyMapping)

\* The store after the units of `order` alone are written in that order
RECURSIVE ReplayWrite(_, _, _, _)
ReplayWrite(order, mappings, i, store) ==
    IF i > Cardinality(DOMAIN order) THEN store
    ELSE ReplayWrite(order, mappings, i + 1,
                     collectTexts(store,
                                  units[order[i]].extraction.extractedTexts,
                                  mappings[order[i]]))

\* Every store a run over the written units alone can end with
StoresOfWrittenAlone ==
    { ReplayWrite(written, ReplayExtract(extracted, at, 1, {}, EmptyMap),
                  1, EmptyMap) :
        extracted \in Perms(WrittenUnits), written \in Perms(WrittenUnits),
        at \in [WrittenUnits -> 0..MaxClock] }

AllTerminal ==
    /\ procPc \in {"awaiting", "locales", "translating", "returned"}
    /\ \A u \in 1..Len(units) : Terminal(units[u])

-----------------------------------------------------------------------------
(* Claims about the snapshot load and the size of the cache *)

DataOf(entries, key) == entries[IndexOfKey(entries, key)].data

\* C33: when the snapshot load the constructor started completes, every
\* entry set since construction is still held with the data it was set with
C33_SetSurvivesLoad ==
    [][(loadPc # "done" /\ loadPc' = "done")
       => \A k \in KeysOf(memoryCache) :
             /\ k \in KeysOf(memoryCache')
             /\ DataOf(memoryCache', k) = DataOf(memoryCache, k)]_vars

\* C34: in every state of an enabled cache the number of entries held in
\* memory is at most the current maxEntries
C34_SizeBoundAlways ==
    cacheConfig.enabled => Len(memoryCache) <= cacheConfig.maxEntries

-----------------------------------------------------------------------------
(* Claims about the expiry set gives an entry *)

\* C35: the entry set(key, data, ttl) creates expires ttl after its creation
\* for every ttl passed, 0 included, and defaultTTL after it only when ttl
\* is left out
C35_ExpiresAfterGivenTTL ==
    (/\ cacheLast.op = "set"
     /\ cacheLast.enabled
     /\ cacheLast.key \in KeysOf(memoryCache))
        => LET entry == memoryCache[IndexOfKey(memoryCache, cacheLast.key)]
           IN  entry.expiresAt =
                   entry.timestamp + (IF cacheLast.ttl = Undefined
                                      THEN cacheConfig.defaultTTL
                                      ELSE cacheLast.ttl)

-----------------------------------------------------------------------------
(* Claims about fenced responses *)

FencedWraps == {"json fence", "plain fence", "js fence", "json fence in text"}

\* C36: a response whose JSON payload is wrapped in a fenced code block
\* parses to what the bare payload parses to, whatever tag the fence carries
\* and whether or not text surrounds it
C36_FenceParsesAsBare ==
    (/\ pureResult # Nothing
     /\ "parsed" \in DOMAIN pureResult
     /\ pureArgs.wrap \in FencedWraps
     /\ pureArgs.payload # InvalidJSON)
        => pureResult.parsed =
               ClientParse(pureArgs.kind,
                           [wrap |-> "bare", payload |-> pureArgs.payload])

-----------------------------------------------------------------------------
(* Claims about the order of the substitutions *)

EntriesReversed(keyMapping) ==
    [i \in 1..Len(keyMapping) |-> keyMapping[Len(keyMapping) + 1 - i]]

\* C37: what replaceTempKeys returns is the simultaneous substitution of all
\* placeholders: the mapping with its entries in the opposite order gives
\* the same output, and every inserted final key stands in the output
\* where its placeholder stood
C37_SimultaneousSubstitution ==
    pureResult # Nothing =>
        /\ replaceTempKeys(pureArgs.code, EntriesReversed(pureArgs.keyMapping))
              = pureResult.value
        /\ WholeTokenSubstitution(pureArgs.code,
                                  EntriesReversed(pureArgs.keyMapping))
              = pureResult.value

-----------------------------------------------------------------------------
(* Claims about the first successful attempt *)

Answers == { i \in 1..Len(retryLog) : "answer" \in DOMAIN retryLog[i] }

\* C38: the first attempt of an invokeWithRetry the provider answers is its
\* last: attempt a (from 0, a <= maxRetries) was invocation a + 1, every
\* invocation before it failed, none follows it, and invokeWithRetry
\* returned that response and raised nothing
C38_FirstSuccessReturns ==
    [][/\ Answers' \ Answers # {}
          => /\ Answers' = {Len(retryLog')}
             /\ Len(retryLog') = attempt + 1
             /\ attempt <= llmConfig.retryCount
             /\ llmPc' \in {"compile", "done"}
             /\ retryLast'.outcome = "returned"
             /\ retryLast'.calls = attempt + 1
             /\ retryLast'.failures = attempt
             /\ Len(batchLog') = Len(batchLog) + 1
             /\ batchLog'[Len(batchLog')].outcome
                   \in {"translated", "parse error"}
       /\ Answers # {} => retryLog' \in {retryLog, <<>>}]_vars

\* The provider answered the second of three attempts allowed
C38_Witness ==
    /\ Answers # {}
    /\ attempt = 1
    /\ llmConfig.retryCount = 2
    /\ retryLast.outcome = "returned"
    /\ retryLast.calls = 2

-----------------------------------------------------------------------------
(* Claims about the order in which units start *)

Started == { u \in 1..Len(units) : units[u].pc # "queued" }

\* The slice of the input a unit belongs to, from 0
SliceOf(u) == (u - 1) \div procConfig.concurrency

\* C39: units start in input order, slice by slice: every unit before a
\* started unit has started, every unit of an earlier slice is Written or
\* Failed, and the results list holds the results in input order
C39_SliceBySlice ==
    /\ \A u \in Started : \A v \in 1..(u - 1) :
          /\ v \in Started
          /\ SliceOf(v) < SliceOf(u) => Terminal(units[v])
    /\ \A j \in 1..Len(results) : results[j].filePath = j

\* The second slice is running next to the results of the first, one of
\* whose units failed
C39_Witness ==
    /\ procConfig.concurrency = 1
    /\ Len(units) = 2
    /\ units[1].pc = "Failed"
    /\ units[2].pc = "transforming"
    /\ Len(results) = 1

-----------------------------------------------------------------------------
(* Claims about the termination of the batch loop *)

\* C40: with every unit's processing ending, the loop of
\* processFilesConcurrently ends whatever the concurrency, and has then
\* pushed exactly one result per file
C40_LoopTerminates ==
    (procPc = "awaiting")
        ~> (/\ procPc \in {"locales", "translating", "returned"}
            /\ Len(results) = Len(units)
            /\ \A u \in 1..Len(units) :
                  Cardinality({ j \in 1..Len(results) :
                                  results[j].filePath = u }) = 1)

=============================================================================
